---- MODULE Spec2Model ----
(***************************************************************************)
(* Production telemetry engine: rollup engine (ProductionRollup.py) and    *)
(* overcycle engine (OvercyclePublisher.py).                               *)
(*                                                                         *)
(* Time is an integer number of model time units; TickPeriod units make    *)
(* one period of the gateway timer, HourLen units one hour and HoursPerDay *)
(* hours one local day.  The timer fires at the instants that are          *)
(* multiples of TickPeriod and the counter changes at the other instants,  *)
(* so no sample is stamped with the instant of a tick or of an hour, shift *)
(* or day boundary.  The gateway time zone is taken to be UTC, so local    *)
(* midnight falls on a UTC hour boundary.  A handler is one atomic action  *)
(* that reads the clock once.                                              *)
(* An absent value (Python None) is written None (-1): counters, shift     *)
(* ids and day numbers are never negative.                                 *)
(***************************************************************************)
EXTENDS Integers, Sequences, FiniteSets, TLC

(* ---------------- bounds of the model ---------------- *)
MaxTime == 10
MaxSamples == 2
MaxLen == 3
MaxVal == 3
MaxRestarts == 1
MaxBadReads == 1
MaxBackfills == 1

(* ---------------- scale of the model ---------------- *)
TickPeriod == 2
HourLen == 2 * TickPeriod
HoursPerDay == 2
DayLen == HourLen * HoursPerDay
WRITE_IDLE_SEC == TickPeriod
LOOKBACK_HOURS == 48

None == -1
NoVal == -2

(* ---------------- small helpers ---------------- *)
Max0(x) == IF x > 0 THEN x ELSE 0

RECURSIVE SeqSum(_)
SeqSum(q) == IF q = <<>> THEN 0 ELSE q[1] + SeqSum(Tail(q))

SetMax(S) == CHOOSE x \in S : \A y \in S : y <= x

RECURSIVE Numeric(_)
Numeric(q) ==
  IF q = <<>> THEN <<>>
  ELSE IF q[1] # NoVal THEN <<q[1]>> \o Numeric(Tail(q))
       ELSE Numeric(Tail(q))

RECURSIVE Concat(_)
Concat(qq) == IF qq = <<>> THEN <<>> ELSE qq[1] \o Concat(Tail(qq))

(* ---------------- time utils ---------------- *)
_floor_hour_utc(d) == d - (d % HourLen)

DayOf(d) == d \div DayLen

MidnightOf(d) == DayOf(d) * DayLen

(* Calendar.DAY_OF_WEEK, 1..7 = Sun..Sat; day 0 of the model is a Sunday. *)
DayOfWeek(d) == (DayOf(d) % 7) + 1

_week_start_local_sys(d, dow_1to7) ==
  LET back == (DayOfWeek(d) - dow_1to7 + 7) % 7
  IN  MidnightOf(d) - back * DayLen

(* ---------------- historian ---------------- *)
(* A series is a time-ordered sequence of samples [ts, v].  A raw query    *)
(* with includeBoundingValues returns the last sample before the start     *)
(* (the bounding value) followed by the samples with start <= ts <= end.   *)
CountBefore(h, t) == Cardinality({i \in DOMAIN h : h[i].ts < t})

CountUpTo(h, t) == Cardinality({i \in DOMAIN h : h[i].ts <= t})

queryTagHistory(h, startDate, endDate, includeBoundingValues) ==
  LET k == CountBefore(h, startDate)
      m == CountUpTo(h, endDate)
      lo == IF includeBoundingValues /\ k >= 1 THEN k ELSE k + 1
      rows == IF startDate > endDate THEN <<>> ELSE SubSeq(h, lo, m)
  IN  [i \in DOMAIN rows |-> rows[i].v]

_hist_value_at_or_before(tag_path, h, at_dt) ==
  IF ~tag_path THEN None
  ELSE LET ds == queryTagHistory(h, at_dt - LOOKBACK_HOURS * HourLen, at_dt, TRUE)
       IN  IF Len(ds) > 0
           THEN (IF ds[Len(ds)] = NoVal THEN None ELSE ds[Len(ds)])
           ELSE None

(* Lines 114-122: the loop over the dataset; rows that are not numeric are *)
(* skipped.                                                                *)
RECURSIVE PeakLoop(_, _, _)
PeakLoop(ds, peak, total) ==
  IF ds = <<>> THEN total
  ELSE LET v == ds[1]
       IN  IF v = NoVal THEN PeakLoop(Tail(ds), peak, total)
           ELSE IF v > peak THEN PeakLoop(Tail(ds), v, total + (v - peak))
           ELSE PeakLoop(Tail(ds), peak, total)

(* A plausible slip: a dip lowers the peak (the live tick's rule).         *)
RECURSIVE PeakLoopRebase(_, _, _)
PeakLoopRebase(ds, peak, total) ==
  IF ds = <<>> THEN total
  ELSE LET v == ds[1]
       IN  IF v = NoVal THEN PeakLoopRebase(Tail(ds), peak, total)
           ELSE IF v > peak THEN PeakLoopRebase(Tail(ds), v, total + (v - peak))
           ELSE PeakLoopRebase(Tail(ds), v, total)

positive_delta_rebase(ds) ==
  LET num == Numeric(ds)
  IN  IF ds = <<>> \/ num = <<>> THEN 0 ELSE PeakLoopRebase(ds, num[1], 0)

positive_delta_of(ds) ==
  LET num == Numeric(ds)
  IN  IF ds = <<>> \/ num = <<>> THEN 0 ELSE PeakLoop(ds, num[1], 0)

_series_positive_delta(tag_path, h, start_dt, end_dt) ==
  IF ~tag_path \/ start_dt >= end_dt THEN 0
  ELSE positive_delta_of(queryTagHistory(h, start_dt, end_dt, TRUE))

(* ---------------- configuration read from the store ---------------- *)
(* Two critical stations on line 1; station 2 has no TotalParts tag.       *)
Stations ==
  << [station_id |-> 1, line_id |-> 1, tag |-> TRUE],
     [station_id |-> 2, line_id |-> 1, tag |-> FALSE] >>

StationIds == {Stations[i].station_id : i \in DOMAIN Stations}

(* Counter values the TotalParts tag takes, and the values that can follow *)
(* each: the counter grows, and from time to time it is reset.             *)
CounterVals == << 50, 55, 0, 7 >>

InitCount == CounterVals[1]

NextVals(c) ==
  CASE c = 0 -> {7}
    [] c = 7 -> {50}
    [] c = 50 -> {55, 0}
    [] OTHER -> {0}

(* One shift per local day on line 1, from ShiftStartOff to ShiftEndOff    *)
(* after midnight; nothing is scheduled before day 0.                      *)
ShiftStartOff == TickPeriod
ShiftEndOff == HourLen + TickPeriod

getShiftScheduleOnDate(day) ==
  IF day < 0 THEN <<>>
  ELSE << [line_id |-> 1, shift_id |-> 1,
           start_time |-> day * DayLen + ShiftStartOff,
           end_time |-> day * DayLen + ShiftEndOff] >>

(* _get_settings (lines 127-138): the defaults, rollups enabled and the     *)
(* week starting on Monday (2).                                            *)
week_start_dow == 2

(* ======================= rollup engine: state ======================= *)
VARIABLES
  now,               \* the gateway clock
  counter,           \* live value of station 1's TotalParts tag
  hist,              \* historian series of that tag
  _state,            \* sid -> rolling hour/shift/week state
  _meta,             \* cached shift windows
  _bootstrapped_day, \* day of the last bootstrap, or None
  hour_rows,         \* rows passed to upsertHourlyBatch by the last operation
  shift_rows,        \* rows passed to upsertShiftBatch by the last operation
  week_rows,         \* rows passed to upsertWeeklyBatch by the last operation
  wm_rows,           \* rows passed to upsertHourlyWatermarksBatch
  ticked,            \* the timer has fired at the current instant
  restarts,          \* history: number of gateway restarts so far
  bad_reads,         \* history: number of ticks so far that read with bad quality
  backfills,         \* history: number of backfill calls so far
  late_count,        \* history: late-reconciliation rows per station and shift
  closed_hour_log,   \* history: totals written for (station, hour) since its first closed row
  closed_shift_log,  \* history: totals of the closed rows emitted per station and shift
  flush_failures     \* history: per failed flush, its instant and the closed rows it held

rvars == << now, counter, hist, _state, _meta, _bootstrapped_day, hour_rows,
            shift_rows, week_rows, wm_rows, ticked, restarts,
            bad_reads, backfills, late_count, closed_hour_log, closed_shift_log,
            flush_failures >>

(* Calls of the pure functions, checked on their own: each variable holds *)
(* the inputs of one call and, once the call is done, its result.          *)
VARIABLES
  delta_call,        \* _series_positive_delta: [tag, series, start, end, done, result]
  accum_run,         \* reset-safe accumulation: [todo, seen, s, before]
  ct_call,           \* _ct_at: [segs, ts, i_hint, done, result]
  scan_call          \* the history scan of one station: [segs, ds, done, result]

(* The overcycle engine.                                                  *)
VARIABLES
  oc_now,            \* the gateway clock
  oc_ticked,         \* the overcycle timer has fired at the current instant
  cycle_hist,        \* historian series of station 1's CycleTime tag: [ts, act]
  _shifts,           \* cached shift windows: [last_load, today, by_line]
  station_cum,       \* store: cumulative station rows, << sid, shift day >> -> row
  line_snap,         \* store: line snapshot rows, shift day -> row
  oc_out,            \* store writes and publishes of the last tick, in order
  finalized,         \* history: shift days a tick has finalized
  late_outputs       \* history: outputs for a shift made after its finalizing tick

ovars == << oc_now, oc_ticked, cycle_hist, _shifts, station_cum, line_snap, oc_out,
            finalized, late_outputs >>

(* One call of a pure function, checked on its own: the name of the       *)
(* function, its arguments and, once the call is done, its result.         *)
VARIABLES
  fn_call            \* [fn, args, done, result]

(* The cycle-time and target engine.                                      *)
VARIABLES
  tg_now,            \* the gateway clock
  tg_ticked,         \* the targets timer has fired at the current instant
  tg_counter,        \* live value of station 1's TotalParts tag
  tg_hist,           \* historian series of that tag
  tg_part,           \* part number on station 1's fixture ("" when none)
  _tstate,           \* sid -> CT, segment and target state
  ct_store,          \* store: CT segments in the order they were written
  tgt_store,         \* store: base targets, << kind, sid, window >> -> base
  _repair_last_run_ms, \* time of the last repair of missing bases
  tg_rows,           \* rows passed to the target upserts by the last tick
  tg_fail,           \* the station whose processing failed in the last tick, or None
  tg_events,         \* history: [parts, fails, hooks] counts of environment events
  tg_emit            \* history: per tick, what station 1's hourly step computed

tvars == << tg_now, tg_ticked, tg_counter, tg_hist, tg_part, _tstate, ct_store,
            tgt_store, _repair_last_run_ms, tg_rows, tg_fail, tg_events, tg_emit >>

(* The publisher.                                                         *)
VARIABLES
  pub_store,         \* store: rows to publish, key -> [is_closed, is_published, ...]
  pub_broker,        \* payloads the broker has accepted, in order
  pub_out            \* history: what the last publish_pending call did

bvars == << pub_store, pub_broker, pub_out >>

(* The tag-change publisher.                                              *)
VARIABLES
  tc_now,            \* the gateway clock, in milliseconds
  tag_val,           \* number of good value changes under the station root so far
  _status_last_pub_ms, \* station root -> time of its last status snapshot publish
  _node_last_pub_ms, \* topic -> time of its last node or cycle publish
  tc_out             \* history: publish times, what the last snapshot showed, last event

cvars == << tc_now, tag_val, _status_last_pub_ms, _node_last_pub_ms, tc_out >>

xvars == << fn_call, tvars, bvars, cvars >>

Idle == "idle"

TargetsIdle ==
  /\ tg_now = 0 /\ tg_ticked = FALSE /\ tg_counter = 0 /\ tg_hist = <<>>
  /\ tg_part = "" /\ _tstate = <<>> /\ ct_store = <<>> /\ tgt_store = <<>>
  /\ _repair_last_run_ms = 0 /\ tg_rows = <<>> /\ tg_fail = 0 /\ tg_events = <<>> /\ tg_emit = <<>>

PublisherIdle ==
  /\ pub_store = <<>> /\ pub_broker = <<>> /\ pub_out = <<>>

TagChangeIdle ==
  /\ tc_now = 0 /\ tag_val = 0 /\ _status_last_pub_ms = <<>>
  /\ _node_last_pub_ms = <<>> /\ tc_out = <<>>

OvercycleIdle ==
  /\ oc_now = 0 /\ oc_ticked = FALSE /\ cycle_hist = <<>> /\ _shifts = Idle
  /\ station_cum = <<>> /\ line_snap = <<>> /\ oc_out = <<>>
  /\ finalized = {} /\ late_outputs = 0

(* What the rollup engine never touches.                                  *)
pvars == << delta_call, accum_run, ct_call, scan_call, ovars, xvars >>

PureIdleBut(k) ==
  /\ IF k = "overcycle" THEN TRUE ELSE OvercycleIdle
  /\ IF k = "delta" THEN TRUE ELSE delta_call = Idle
  /\ IF k = "accum" THEN TRUE ELSE accum_run = Idle
  /\ IF k = "ct" THEN TRUE ELSE ct_call = Idle
  /\ IF k = "scan" THEN TRUE ELSE scan_call = Idle
  /\ IF k = "fn" THEN TRUE ELSE fn_call = Idle
  /\ IF k = "targets" THEN TRUE ELSE TargetsIdle
  /\ IF k = "publisher" THEN TRUE ELSE PublisherIdle
  /\ IF k = "tagchange" THEN TRUE ELSE TagChangeIdle

RollupIdle ==
  /\ now = 0 /\ counter = 0 /\ hist = <<>> /\ _state = <<>> /\ _meta = <<>>
  /\ _bootstrapped_day = 0 /\ hour_rows = <<>> /\ shift_rows = <<>>
  /\ week_rows = <<>> /\ wm_rows = <<>> /\ ticked = FALSE /\ restarts = 0
  /\ bad_reads = 0 /\ backfills = 0 /\ late_count = <<>>
  /\ closed_hour_log = {} /\ closed_shift_log = {} /\ flush_failures = <<>>

vars == << rvars, pvars >>

TagSeries(st) == IF st.tag THEN hist ELSE <<>>

NoShift == [shift_id |-> None, shift_date |-> None, start |-> None, end |-> None]

MetaInit == [shiftsToday |-> <<>>, shiftsYday |-> <<>>, pastShiftsByLine |-> <<>>]

(* ---------------- shift windows ---------------- *)
RECURSIVE InsertByEnd(_, _)
InsertByEnd(w, q) ==
  IF q = <<>> THEN <<w>>
  ELSE IF q[1].end <= w.end THEN <<q[1]>> \o InsertByEnd(w, Tail(q))
       ELSE <<w>> \o q

RECURSIVE SortByEnd(_)
SortByEnd(q) == IF q = <<>> THEN <<>> ELSE InsertByEnd(q[Len(q)], SortByEnd(SubSeq(q, 1, Len(q) - 1)))

RECURSIVE EndedWindows(_, _)
EndedWindows(rows, t) ==
  IF rows = <<>> THEN <<>>
  ELSE LET r == rows[1]
           rest == EndedWindows(Tail(rows), t)
       IN  IF r.end_time <= t
           THEN << [line_id |-> r.line_id, shift_id |-> r.shift_id,
                    shift_date |-> DayOf(r.start_time),
                    start |-> r.start_time, end |-> r.end_time] >> \o rest
           ELSE rest

(* Lines 196-227; run_rollups calls it with the default force=True, so the *)
(* windows are reloaded on every tick.                                     *)
_load_shift_windows_if_needed(t) ==
  LET today == getShiftScheduleOnDate(DayOf(t))
      yday  == getShiftScheduleOnDate(DayOf(t) - 1)
  IN  [shiftsToday |-> today, shiftsYday |-> yday,
       pastShiftsByLine |-> SortByEnd(EndedWindows(yday \o today, t))]

RECURSIVE FirstActive(_, _, _)
FirstActive(rows, line_id, at_dt) ==
  IF rows = <<>> THEN NoShift
  ELSE LET r == rows[1]
       IN  IF r.line_id = line_id /\ r.start_time <= at_dt /\ at_dt < r.end_time
           THEN [shift_id |-> r.shift_id, shift_date |-> DayOf(r.start_time),
                 start |-> r.start_time, end |-> r.end_time]
           ELSE FirstActive(Tail(rows), line_id, at_dt)

_active_shift_for_line(m, line_id, at_dt) ==
  LET a == FirstActive(m.shiftsToday, line_id, at_dt)
  IN  IF a.shift_id # None THEN a ELSE FirstActive(m.shiftsYday, line_id, at_dt)

(* ---------------- init station state (lines 231-286) ---------------- *)
_ensure_init_station_state(st, m, t, live, good) ==
  LET cur_hr_u == _floor_hour_utc(t)
      week_st == _week_start_local_sys(t, week_start_dow)
      h == TagSeries(st)
      curr == IF st.tag /\ good THEN live ELSE 0
      a0 == _hist_value_at_or_before(st.tag, h, cur_hr_u)
      hr_start_cnt == IF a0 = None THEN curr ELSE a0
      sh == _active_shift_for_line(m, st.line_id, t)
      a1 == IF sh.shift_id # None THEN _hist_value_at_or_before(st.tag, h, sh.start) ELSE None
  IN  [line_id |-> st.line_id, tag |-> st.tag,
       hour_start_utc |-> cur_hr_u,
       hour_start_count |-> hr_start_cnt,
       hour_total |-> _series_positive_delta(st.tag, h, cur_hr_u, t),
       last_peak |-> curr,
       hour_last_flush |-> t,
       shift_id |-> sh.shift_id,
       shift_date |-> sh.shift_date,
       shift_start_count |-> IF a1 = None THEN curr ELSE a1,
       shift_total |-> IF sh.shift_id # None
                       THEN _series_positive_delta(st.tag, h, sh.start, t) ELSE 0,
       week_start_local |-> week_st,
       week_total |-> _series_positive_delta(st.tag, h, week_st, t),
       past_shift_done_keys |-> {}]

(* ---------------- rows ---------------- *)
(* src is an annotation of the model, not a column: the code path that     *)
(* emitted the row.                                                        *)
HourRow(sid, lid, hr, tot, sc, ec, closed, src) ==
  [station_id |-> sid, line_id |-> lid, hour_start_utc |-> hr, total_parts |-> tot,
   start_count |-> sc, end_count |-> ec, is_closed |-> closed, src |-> src]

ShiftRow(sid, shid, day, tot, sc, ec, closed, src) ==
  [station_id |-> sid, shift_id |-> shid, shift_local_date |-> day, total_parts |-> tot,
   start_count |-> sc, end_count |-> ec, is_closed |-> closed, src |-> src]

WeekRow(sid, wk, tot, closed) ==
  [station_id |-> sid, week_start_local |-> wk, total_parts |-> tot, is_closed |-> closed]

(* ---------------- bootstrap (lines 290-378) ---------------- *)
BootstrapHourRow(st, cur) ==
  IF ~st.tag
  THEN HourRow(st.station_id, st.line_id, cur, 0, None, None, 1, "bootstrap")
  ELSE HourRow(st.station_id, st.line_id, cur,
               _series_positive_delta(st.tag, hist, cur, cur + HourLen),
               _hist_value_at_or_before(st.tag, hist, cur),
               _hist_value_at_or_before(st.tag, hist, cur + HourLen),
               1, "bootstrap")

RECURSIVE bootstrap_hours_through_now(_, _)
bootstrap_hours_through_now(cur, h_end) ==
  IF cur <= h_end
  THEN [i \in DOMAIN Stations |-> BootstrapHourRow(Stations[i], cur)]
       \o bootstrap_hours_through_now(cur + HourLen, h_end)
  ELSE <<>>

RECURSIVE BootstrapHours(_, _)
BootstrapHours(cur, h_end) ==
  IF cur < h_end
  THEN [i \in DOMAIN Stations |-> BootstrapHourRow(Stations[i], cur)]
       \o BootstrapHours(cur + HourLen, h_end)
  ELSE <<>>

BootstrapShiftRow(st, r, t) ==
  LET eff_end == IF r.end_time <= t THEN r.end_time ELSE t
      h == TagSeries(st)
  IN  ShiftRow(st.station_id, r.shift_id, DayOf(r.start_time),
               _series_positive_delta(st.tag, h, r.start_time, eff_end),
               _hist_value_at_or_before(st.tag, h, r.start_time),
               IF eff_end < r.end_time THEN None
               ELSE _hist_value_at_or_before(st.tag, h, r.end_time),
               IF eff_end < r.end_time THEN 0 ELSE 1, "bootstrap")

RECURSIVE BootstrapShifts(_, _)
BootstrapShifts(shifts, t) ==
  IF shifts = <<>> THEN <<>>
  ELSE LET r == shifts[1]
           eff_end == IF r.end_time <= t THEN r.end_time ELSE t
           on_line == SelectSeq(Stations, LAMBDA st : st.line_id = r.line_id)
       IN  (IF eff_end <= r.start_time THEN <<>>
            ELSE [i \in DOMAIN on_line |-> BootstrapShiftRow(on_line[i], r, t)])
           \o BootstrapShifts(Tail(shifts), t)

_bootstrap_today(t) ==
  [h_rows |-> BootstrapHours(_floor_hour_utc(MidnightOf(t)), _floor_hour_utc(t)),
   sh_rows |-> BootstrapShifts(getShiftScheduleOnDate(DayOf(t)), t)]

(* ---------------- backfill (lines 609-760) ---------------- *)
(* write_zero_on_no_data keeps its default, True.                          *)
BackfillHourRow(st, cur) ==
  LET h == TagSeries(st)
      start_cnt == _hist_value_at_or_before(st.tag, h, cur)
      end_cnt == _hist_value_at_or_before(st.tag, h, cur + HourLen)
      had == \/ Len(queryTagHistory(h, cur, cur + HourLen, TRUE)) > 0
             \/ start_cnt # None
             \/ end_cnt # None
  IN  IF st.tag /\ had
      THEN HourRow(st.station_id, st.line_id, cur,
                   _series_positive_delta(st.tag, h, cur, cur + HourLen),
                   start_cnt, end_cnt, 1, "backfill")
      ELSE HourRow(st.station_id, st.line_id, cur, 0, None, None, 1, "backfill")

RECURSIVE BackfillHours(_, _)
BackfillHours(cur, h_end) ==
  IF cur < h_end
  THEN [i \in DOMAIN Stations |-> BackfillHourRow(Stations[i], cur)]
       \o BackfillHours(cur + HourLen, h_end)
  ELSE <<>>

BackfillShiftRow(st, r) ==
  LET h == TagSeries(st)
  IN  IF st.tag
      THEN ShiftRow(st.station_id, r.shift_id, DayOf(r.start_time),
                    _series_positive_delta(st.tag, h, r.start_time, r.end_time),
                    _hist_value_at_or_before(st.tag, h, r.start_time),
                    _hist_value_at_or_before(st.tag, h, r.end_time), 1, "backfill")
      ELSE ShiftRow(st.station_id, r.shift_id, DayOf(r.start_time), 0, None, None, 1,
                    "backfill")

RECURSIVE BackfillShifts(_)
BackfillShifts(shifts) ==
  IF shifts = <<>> THEN <<>>
  ELSE LET r == shifts[1]
           on_line == SelectSeq(Stations, LAMBDA st : st.line_id = r.line_id)
       IN  (IF r.end_time <= r.start_time THEN <<>>
            ELSE [i \in DOMAIN on_line |-> BackfillShiftRow(on_line[i], r)])
           \o BackfillShifts(Tail(shifts))

(* ---------------- late reconciliation (lines 163-194) ---------------- *)
ShiftKey(shid, day) == << shid, day >>

(* A plausible slip: the window is never marked reconciled.                *)
MarkDoneNever(done, key) == done

MarkDone(done, key) == done \cup {key}

RECURSIVE ReconcileLoop(_, _, _)
ReconcileLoop(st, wins, done) ==
  IF wins = <<>> THEN [rows |-> <<>>, done |-> done]
  ELSE LET w == wins[1]
           key == ShiftKey(w.shift_id, w.shift_date)
           h == TagSeries(st)
       IN  IF w.line_id # st.line_id \/ key \in done
           THEN ReconcileLoop(st, Tail(wins), done)
           ELSE LET row == ShiftRow(st.station_id, w.shift_id, w.shift_date,
                                    _series_positive_delta(st.tag, h, w.start, w.end),
                                    _hist_value_at_or_before(st.tag, h, w.start),
                                    _hist_value_at_or_before(st.tag, h, w.end),
                                    1, "reconcile")
                    rest == ReconcileLoop(st, Tail(wins), MarkDone(done, key))
                IN  [rows |-> <<row>> \o rest.rows, done |-> rest.done]

_reconcile_late_shifts_for_station(st, s, m) ==
  ReconcileLoop(st, m.pastShiftsByLine, s.past_shift_done_keys)

(* ---------------- steady-state tick, one station (lines 474-598) -------- *)
(* The steps of the loop body thread a record b: the station's state s and *)
(* the rows the station has appended to the four batches so far.           *)
Batch(s, late) ==
  [s |-> s, late |-> late, hour |-> <<>>, wm |-> <<>>, shift |-> <<>>, week |-> <<>>]

(* Lines 480-505: hour rollover.                                           *)
HourRollover(sid, b, curr, t) ==
  LET s == b.s
      cur_hr == _floor_hour_utc(t)
      a == _hist_value_at_or_before(s.tag, IF s.tag THEN hist ELSE <<>>, cur_hr)
  IN  IF s.hour_start_utc # cur_hr
      THEN [b EXCEPT !.s = [s EXCEPT !.hour_start_utc = cur_hr,
                                     !.hour_start_count = IF a # None THEN a ELSE curr,
                                     !.hour_total = 0,
                                     !.last_peak = curr,
                                     !.hour_last_flush = t],
                     !.hour = Append(@, HourRow(sid, s.line_id, s.hour_start_utc,
                                                Max0(s.hour_total), s.hour_start_count,
                                                s.last_peak, 1, "rollover")),
                     !.wm = Append(@, [station_id |-> sid, last_utc |-> s.hour_start_utc,
                                       cur_hour_start_utc |-> cur_hr,
                                       cur_hour_start_count |-> curr,
                                       cur_hour_last_peak |-> curr])]
      ELSE b

(* A plausible slip: a reset is counted as a negative increment.           *)
AccumulateSigned(s, curr) ==
  [s EXCEPT !.last_peak = curr,
            !.hour_total = @ + (curr - s.last_peak),
            !.shift_total = @ + (curr - s.last_peak),
            !.week_total = @ + (curr - s.last_peak)]

(* Lines 508-517: reset-safe accumulation.                                 *)
Accumulate(s, curr) ==
  IF curr >= s.last_peak
  THEN LET inc == curr - s.last_peak
       IN  IF inc > 0
           THEN [s EXCEPT !.last_peak = curr,
                          !.hour_total = @ + inc,
                          !.shift_total = @ + inc,
                          !.week_total = @ + inc]
           ELSE s
  ELSE [s EXCEPT !.last_peak = curr]

AccumulateStep(b, curr) == [b EXCEPT !.s = Accumulate(@, curr)]

(* Lines 520-530: open-hour write when nothing was flushed for a while.    *)
IdleFlush(sid, b, t) ==
  LET s == b.s
  IN  IF (t - s.hour_last_flush) >= WRITE_IDLE_SEC
      THEN [b EXCEPT !.s = [s EXCEPT !.hour_last_flush = t],
                     !.hour = Append(@, HourRow(sid, s.line_id, s.hour_start_utc,
                                                Max0(s.hour_total), s.hour_start_count,
                                                None, 0, "idle"))]
      ELSE b

(* A plausible slip: the open row is skipped on the tick of a transition. *)
shift_open_row_skipped_on_change(sid, b, m, curr, t) ==
  LET s == b.s
      a == _active_shift_for_line(m, s.line_id, t)
      cur == IF a.shift_id # None /\ t >= a.end THEN NoShift ELSE a
      h == IF s.tag THEN hist ELSE <<>>
      changed == s.shift_id # cur.shift_id \/ s.shift_date # cur.shift_date
      closed == IF changed /\ s.shift_id # None /\ s.shift_date # None
                THEN << ShiftRow(sid, s.shift_id, s.shift_date, Max0(s.shift_total),
                                 s.shift_start_count, s.last_peak, 1, "transition") >>
                ELSE <<>>
      base == IF cur.shift_id # None THEN _hist_value_at_or_before(s.tag, h, cur.start)
              ELSE None
      s1 == IF ~changed THEN s
            ELSE [s EXCEPT !.shift_id = cur.shift_id,
                           !.shift_date = cur.shift_date,
                           !.shift_start_count = IF base # None THEN base ELSE curr,
                           !.shift_total = IF cur.shift_id # None
                                           THEN _series_positive_delta(s.tag, h, cur.start, t)
                                           ELSE 0]
      open == IF s1.shift_id # None /\ ~changed
              THEN << ShiftRow(sid, s1.shift_id, s1.shift_date, Max0(s1.shift_total),
                               s1.shift_start_count, None, 0, "open") >>
              ELSE <<>>
  IN  [b EXCEPT !.s = s1, !.shift = @ \o closed \o open]

(* Lines 533-575: shift transition and the open-shift snapshot.            *)
ShiftHandling(sid, b, m, curr, t) ==
  LET s == b.s
      a == _active_shift_for_line(m, s.line_id, t)
      cur == IF a.shift_id # None /\ t >= a.end THEN NoShift ELSE a
      h == IF s.tag THEN hist ELSE <<>>
      changed == s.shift_id # cur.shift_id \/ s.shift_date # cur.shift_date
      closed == IF changed /\ s.shift_id # None /\ s.shift_date # None
                THEN << ShiftRow(sid, s.shift_id, s.shift_date, Max0(s.shift_total),
                                 s.shift_start_count, s.last_peak, 1, "transition") >>
                ELSE <<>>
      base == IF cur.shift_id # None THEN _hist_value_at_or_before(s.tag, h, cur.start)
              ELSE None
      s1 == IF ~changed THEN s
            ELSE [s EXCEPT !.shift_id = cur.shift_id,
                           !.shift_date = cur.shift_date,
                           !.shift_start_count = IF base # None THEN base ELSE curr,
                           !.shift_total = IF cur.shift_id # None
                                           THEN _series_positive_delta(s.tag, h, cur.start, t)
                                           ELSE 0]
      open == IF s1.shift_id # None
              THEN << ShiftRow(sid, s1.shift_id, s1.shift_date, Max0(s1.shift_total),
                               s1.shift_start_count, None, 0, "open") >>
              ELSE <<>>
  IN  [b EXCEPT !.s = s1, !.shift = @ \o closed \o open]

(* A plausible slip: the open row of the new week is appended before the   *)
(* closed row of the week it replaces.                                     *)
week_open_row_first(sid, b, t) ==
  LET s == b.s
      week_st == _week_start_local_sys(t, week_start_dow)
      h == IF s.tag THEN hist ELSE <<>>
      changed == DayOf(s.week_start_local) # DayOf(week_st)
      s1 == IF changed
            THEN [s EXCEPT !.week_start_local = week_st,
                           !.week_total = _series_positive_delta(s.tag, h, week_st, t)]
            ELSE s
  IN  [b EXCEPT !.s = s1,
                !.week = @ \o << WeekRow(sid, DayOf(s1.week_start_local),
                                         Max0(s1.week_total), 0) >>
                           \o (IF changed
                               THEN << WeekRow(sid, DayOf(s.week_start_local),
                                               Max0(s.week_total), 1) >>
                               ELSE <<>>)]

(* Lines 578-598: week rollover and the open-week row.  The code compares  *)
(* the formatted local dates of the two week starts.                       *)
WeekHandling(sid, b, t) ==
  LET s == b.s
      week_st == _week_start_local_sys(t, week_start_dow)
      h == IF s.tag THEN hist ELSE <<>>
      changed == DayOf(s.week_start_local) # DayOf(week_st)
      s1 == IF changed
            THEN [s EXCEPT !.week_start_local = week_st,
                           !.week_total = _series_positive_delta(s.tag, h, week_st, t)]
            ELSE s
  IN  [b EXCEPT !.s = s1,
                !.week = @ \o (IF changed
                               THEN << WeekRow(sid, DayOf(s.week_start_local),
                                               Max0(s.week_total), 1) >>
                               ELSE <<>>)
                           \o << WeekRow(sid, DayOf(s1.week_start_local),
                                         Max0(s1.week_total), 0) >>]

StationTick(sid, b, m, curr, t) ==
  WeekHandling(sid,
    ShiftHandling(sid,
      IdleFlush(sid,
        AccumulateStep(HourRollover(sid, b, curr, t), curr), t), m, curr, t), t)

(* Lines 454-476 and 474-598 for one station: first-touch initialisation,  *)
(* late reconciliation, the tag read (a bad read keeps last_peak), and the *)
(* tick.                                                                   *)
ReadCurr(st, s, live, good) == IF st.tag /\ good THEN live ELSE s.last_peak

ReconcileStep(st, s0, m) ==
  LET rec == _reconcile_late_shifts_for_station(st, s0, m)
  IN  Batch([s0 EXCEPT !.past_shift_done_keys = rec.done], rec.rows)

TickFrom(st, b, m, t, live, good) ==
  StationTick(st.station_id, b, m, ReadCurr(st, b.s, live, good), t)

StationPass(st, states, m, t, live, good) ==
  TickFrom(st,
           ReconcileStep(st,
                         IF st.station_id \in DOMAIN states
                         THEN states[st.station_id]
                         ELSE _ensure_init_station_state(st, m, t, live, good),
                         m),
           m, t, live, good)

(* ---------------- history variables ---------------- *)
MaxDay == MaxTime \div DayLen

LateKeys == {<< sid, 1, d >> : sid \in StationIds, d \in 0..MaxDay}

RECURSIVE LogHourRows(_, _)
LogHourRows(rows, log) ==
  IF rows = <<>> THEN log
  ELSE LET r == rows[1]
           seen == \E e \in log : e[1] = r.station_id /\ e[2] = r.hour_start_utc
       IN  LogHourRows(Tail(rows),
                       IF r.is_closed = 1 \/ seen
                       THEN log \cup {<< r.station_id, r.hour_start_utc, r.total_parts >>}
                       ELSE log)

LogShiftRows(rows, log) ==
  log \cup {<< rows[i].station_id, rows[i].shift_id, rows[i].shift_local_date,
               rows[i].total_parts >> : i \in {j \in DOMAIN rows : rows[j].is_closed = 1}}

CountLate(rows, cnt) ==
  [k \in LateKeys |->
     cnt[k] + Cardinality({i \in DOMAIN rows :
                             /\ rows[i].src = "reconcile"
                             /\ << rows[i].station_id, rows[i].shift_id,
                                   rows[i].shift_local_date >> = k})]

(* ======================= rollup engine: actions ======================= *)
RollupInit ==
  /\ now = 0
  /\ counter = InitCount
  /\ hist \in {<<>>, << [ts |-> 0 - 1, v |-> InitCount] >>}
  /\ _state = <<>>
  /\ _meta = MetaInit
  /\ _bootstrapped_day = None
  /\ hour_rows = <<>> /\ shift_rows = <<>> /\ week_rows = <<>> /\ wm_rows = <<>>
  /\ ticked = FALSE
  /\ restarts = 0
  /\ bad_reads = 0
  /\ backfills = 0
  /\ late_count = [k \in LateKeys |-> 0]
  /\ closed_hour_log = {}
  /\ closed_shift_log = {}
  /\ flush_failures = <<>>
  /\ PureIdleBut("none")

IsTickInstant(t) == t % TickPeriod = 0

(* The clock advances.  While the gateway runs, the timer script fires at  *)
(* every tick instant; after a restart the gateway may stay down for any   *)
(* number of periods.                                                      *)
Advance ==
  /\ now < MaxTime
  /\ ~IsTickInstant(now) \/ ticked \/ (_state = <<>> /\ restarts > 0)
  /\ now' = now + 1
  /\ ticked' = FALSE
  /\ UNCHANGED pvars
  /\ UNCHANGED << counter, hist, _state, _meta, _bootstrapped_day, hour_rows,
                  shift_rows, week_rows, wm_rows, restarts, bad_reads,
                  backfills, late_count, closed_hour_log, closed_shift_log,
                  flush_failures >>

(* The station produces parts (the counter grows) or its counter is reset  *)
(* (it drops); the historian records the new value.                        *)
CounterChange ==
  /\ Len(hist) < MaxSamples + 1
  /\ ~IsTickInstant(now)
  /\ IF hist = <<>> THEN TRUE ELSE hist[Len(hist)].ts < now
  /\ \E v \in NextVals(counter) :
       /\ counter' = v
       /\ hist' = Append(hist, [ts |-> now, v |-> v])
  /\ UNCHANGED pvars
  /\ UNCHANGED << now, _state, _meta, _bootstrapped_day, hour_rows, shift_rows,
                  week_rows, wm_rows, ticked, restarts, bad_reads,
                  backfills, late_count,
                  closed_hour_log, closed_shift_log, flush_failures >>

(* Lines 382-393 and the upserts of the bootstrap: the rows the operation  *)
(* hands to the store, in the order of the calls.                          *)
_flush_batches(h_rows, sh_rows, wk_rows, wm) ==
  /\ hour_rows' = h_rows
  /\ shift_rows' = sh_rows
  /\ week_rows' = wk_rows
  /\ wm_rows' = wm
  /\ late_count' = CountLate(sh_rows, late_count)
  /\ closed_hour_log' = LogHourRows(h_rows, closed_hour_log)
  /\ closed_shift_log' = LogShiftRows(sh_rows, closed_shift_log)

TickCommit(boot, tk) ==
  /\ _state' = [sid \in StationIds |->
                  tk[CHOOSE i \in DOMAIN Stations : Stations[i].station_id = sid].s]
  /\ _flush_batches(boot.h_rows \o Concat([i \in DOMAIN tk |-> tk[i].hour]),
                    boot.sh_rows \o Concat([i \in DOMAIN tk |-> tk[i].late])
                                 \o Concat([i \in DOMAIN tk |-> tk[i].shift]),
                    Concat([i \in DOMAIN tk |-> tk[i].week]),
                    Concat([i \in DOMAIN tk |-> tk[i].wm]))

RollupPass(m, t, live, good) ==
  TickCommit(IF _bootstrapped_day # DayOf(t) THEN _bootstrap_today(t)
             ELSE [h_rows |-> <<>>, sh_rows |-> <<>>],
             [i \in DOMAIN Stations |-> StationPass(Stations[i], _state, m, t, live, good)])

(* Lines 410-605: one timer tick with the rollups enabled.  good is the    *)
(* quality of the tag reads of the tick.                                   *)
run_rollups ==
  \E good \in BOOLEAN :
    /\ IsTickInstant(now)
    /\ ~ticked
    /\ good \/ bad_reads < MaxBadReads
    /\ ticked' = TRUE
    /\ bad_reads' = IF good THEN bad_reads ELSE bad_reads + 1
    /\ _meta' = _load_shift_windows_if_needed(now)
    /\ _bootstrapped_day' = DayOf(now)
    /\ RollupPass(_meta', now, counter, good)
    /\ UNCHANGED << now, counter, hist, restarts, backfills, flush_failures >>
    /\ UNCHANGED pvars

(* Lines 609-760: an operator recomputes a past day from the historian.    *)
backfill_day_dense ==
  \E day \in 0..(DayOf(now) - 1) :
    /\ backfills < MaxBackfills
    /\ backfills' = backfills + 1
    /\ _flush_batches(BackfillHours(_floor_hour_utc(day * DayLen),
                                    _floor_hour_utc((day + 1) * DayLen)),
                      BackfillShifts(getShiftScheduleOnDate(day)), <<>>, <<>>)
    /\ UNCHANGED << now, counter, hist, _state, _meta, _bootstrapped_day, ticked,
                    restarts, bad_reads, flush_failures >>
    /\ UNCHANGED pvars

(* The gateway restarts: the module globals are lost, the store is kept.   *)
Restart ==
  /\ _state # <<>>
  /\ restarts < MaxRestarts
  /\ restarts' = restarts + 1
  /\ _state' = <<>>
  /\ _meta' = MetaInit
  /\ _bootstrapped_day' = None
  /\ hour_rows' = <<>> /\ shift_rows' = <<>> /\ week_rows' = <<>> /\ wm_rows' = <<>>
  /\ late_count' = [k \in LateKeys |-> 0]
  /\ UNCHANGED << now, counter, hist, ticked, bad_reads, backfills, closed_hour_log,
                  closed_shift_log, flush_failures >>
  /\ UNCHANGED pvars

RollupNext ==
  \/ Advance
  \/ CounterChange
  \/ run_rollups
  \/ backfill_day_dense
  \/ Restart

Spec == RollupInit /\ [][RollupNext]_vars

(* ======================= pure functions on their own ======================= *)
(* ---- _series_positive_delta over bounded series ---- *)
Stamp(vals) == [i \in DOMAIN vals |-> [ts |-> i, v |-> vals[i]]]

SeqsUpTo(S, n) == UNION {[1..k -> S] : k \in 0..n}

Example6 == << 10, 11, 12, 3, 4, 5, 13 >>

DeltaInit ==
  /\ RollupIdle
  /\ PureIdleBut("delta")
  /\ \/ \E vals \in SeqsUpTo(0..MaxVal \cup {NoVal}, MaxLen) :
          \E tag \in BOOLEAN : \E a \in 0..2 : \E b \in 0..MaxLen :
            delta_call = [tag |-> tag, series |-> Stamp(vals), start |-> a, end |-> b,
                          done |-> FALSE, result |-> None]
     \/ delta_call = [tag |-> TRUE, series |-> Stamp(Example6), start |-> 1,
                       end |-> Len(Example6), done |-> FALSE, result |-> None]

call_series_positive_delta ==
  /\ ~delta_call.done
  /\ delta_call' = [delta_call EXCEPT
                      !.done = TRUE,
                      !.result = _series_positive_delta(delta_call.tag, delta_call.series,
                                                        delta_call.start, delta_call.end)]
  /\ UNCHANGED << rvars, accum_run, ct_call, scan_call, ovars, xvars >>

DeltaNext == call_series_positive_delta

SpecDelta == DeltaInit /\ [][DeltaNext]_vars

(* ---- the accumulation step of the tick over a stream of readings ---- *)
MaxReads == 4

ReadVals == {CounterVals[i] : i \in DOMAIN CounterVals}

(* The hour window opens on the first reading: last_peak is that reading   *)
(* and the totals are zero.                                                *)
AccumInit ==
  /\ RollupIdle
  /\ PureIdleBut("accum")
  /\ \E rs \in SeqsUpTo(ReadVals, MaxReads) :
       /\ rs # <<>>
       /\ accum_run = [todo |-> Tail(rs), seen |-> << rs[1] >>,
                       s |-> [last_peak |-> rs[1], hour_total |-> 0,
                              shift_total |-> 0, week_total |-> 0],
                       before |-> 0]

accumulate_tick ==
  /\ accum_run.todo # <<>>
  /\ accum_run' = [todo |-> Tail(accum_run.todo),
                   seen |-> Append(accum_run.seen, accum_run.todo[1]),
                   s |-> Accumulate(accum_run.s, accum_run.todo[1]),
                   before |-> accum_run.s.hour_total]
  /\ UNCHANGED << rvars, delta_call, ct_call, scan_call, ovars, xvars >>

AccumNext == accumulate_tick

SpecAccum == AccumInit /\ [][AccumNext]_vars

(* ======================= properties: rollup engine ======================= *)
(* The value of the counter at instant t: every change is in the series.   *)
CounterAt(t) == IF CountUpTo(hist, t) = 0 THEN InitCount ELSE hist[CountUpTo(hist, t)].v

(* The historian held the counter's value before the first hour began and  *)
(* every tick so far has read the tag with good quality.                   *)
CleanRun == hist # <<>> /\ hist[1].ts < 0 /\ bad_reads = 0

(* The counter did not drop between instants a and b.                      *)
NoResetIn(a, b) ==
  \A i \in DOMAIN hist :
    (a <= hist[i].ts /\ hist[i].ts <= b) =>
      hist[i].v >= (IF i = 1 THEN InitCount ELSE hist[i - 1].v)

(* C1: once a closed row with total T was written for a station and hour,  *)
(* no later write of any rollup operation carries another total for that   *)
(* station and hour.                                                       *)
C1_ClosedHourTotalFinal ==
  CleanRun =>
    \A e1 \in closed_hour_log : \A e2 \in closed_hour_log :
      (e1[1] = e2[1] /\ e1[2] = e2[2]) => e1[3] = e2[3]

(* C2: all closed rows the engine emits for one station and shift key      *)
(* carry the same total_parts.                                             *)
C2_ClosedShiftRowsAgree ==
  CleanRun =>
    \A e1 \in closed_shift_log : \A e2 \in closed_shift_log :
      (e1[1] = e2[1] /\ e1[2] = e2[2] /\ e1[3] = e2[3]) => e1[4] = e2[4]

(* C3: the row a tick emits for the hour it rolls over is closed, its      *)
(* start_count and end_count are the counter's values at the start and at  *)
(* the end of the hour and its total_parts is the counter's increase over  *)
(* the hour, for a station read with good quality on every tick.           *)
C3_RolloverRowIsHourDelta ==
  \A i \in DOMAIN hour_rows :
    LET r == hour_rows[i]
        h0 == r.hour_start_utc
        h1 == r.hour_start_utc + HourLen
    IN  (/\ r.src = "rollover"
         /\ r.station_id = 1
         /\ CleanRun
         /\ restarts = 0
         /\ NoResetIn(h0, h1))
        => (/\ r.is_closed = 1
            /\ r.start_count = CounterAt(h0)
            /\ r.end_count = CounterAt(h1)
            /\ r.total_parts = CounterAt(h1) - CounterAt(h0))

(* C8: in one process lifetime late reconciliation emits exactly one       *)
(* closed row per station and ended shift window: every window the engine  *)
(* has seen as ended has its row and its key in past_shift_done_keys, and  *)
(* no window ever gets a second row.                                       *)
C8_LateReconcileOnce ==
  /\ \A k \in LateKeys : late_count[k] <= 1
  /\ \A sid \in DOMAIN _state : \A j \in DOMAIN _meta.pastShiftsByLine :
       LET w == _meta.pastShiftsByLine[j]
       IN  w.line_id = _state[sid].line_id =>
             /\ late_count[<< sid, w.shift_id, w.shift_date >>] = 1
             /\ ShiftKey(w.shift_id, w.shift_date) \in _state[sid].past_shift_done_keys

(* A window reconciled on the tick at its end is seen again, as ended, by  *)
(* the tick one hour later.                                                *)
C8_Witness ==
  /\ restarts = 0
  /\ ticked
  /\ now = ShiftEndOff + HourLen
  /\ late_count[<< 1, 1, 0 >>] = 1

(* ======================= overcycle engine: pure functions ======================= *)
Stamp9(acts) == [i \in DOMAIN acts |-> [ts |-> i, act |-> acts[i]]]

(* A CT segment is [t, ct, mult]: effective from t, cycle time ct seconds,  *)
(* overcycle multiplier mult.  A CycleTime sample is [ts, act].            *)
EPSILON == 0
DefaultMult == 2

(* Lines 244-254.  i is the code's 0-based index into segs.                *)
RECURSIVE CtForward(_, _, _)
CtForward(segs, i, tms) ==
  IF i + 1 < Len(segs) /\ segs[i + 2].t <= tms THEN CtForward(segs, i + 1, tms) ELSE i

RECURSIVE CtBackward(_, _, _)
CtBackward(segs, i, tms) ==
  IF i > 0 /\ segs[i + 1].t > tms THEN CtBackward(segs, i - 1, tms) ELSE i

(* A plausible slip: the hint is trusted, the walk back is forgotten.       *)
ct_at_trusting_hint(ts, segs, i_hint) ==
  LET i0 == IF 0 <= i_hint /\ i_hint < Len(segs) THEN i_hint ELSE 0
      i == CtForward(segs, i0, ts)
  IN  IF segs = <<>> THEN [ct |-> 0, mult |-> DefaultMult, i |-> i]
      ELSE [ct |-> segs[i + 1].ct, mult |-> segs[i + 1].mult, i |-> i]

_ct_at(ts, segs, i_hint) ==
  LET i0 == IF 0 <= i_hint /\ i_hint < Len(segs) THEN i_hint ELSE 0
      i == CtBackward(segs, CtForward(segs, i0, ts), ts)
  IN  IF segs = <<>> THEN [ct |-> 0, mult |-> DefaultMult, i |-> i]
      ELSE [ct |-> segs[i + 1].ct, mult |-> segs[i + 1].mult, i |-> i]

(* A plausible slip: the cap at ct * mult is forgotten.                    *)
IsOvercycleNoCap(act, ct, mult) == ct > 0 /\ act > ct

(* Lines 407-415: the gates a sample passes to count as an overcycle.      *)
IsOvercycle(act, ct, mult) ==
  /\ ~(ct <= 0)
  /\ ~(act <= ct)
  /\ ~(act > ct * mult)
  /\ ~(EPSILON > 0 /\ act < ct * (1 + EPSILON))

(* Lines 397-425: the loop over the history rows of one station.           *)
RECURSIVE ScanRows(_, _, _, _)
ScanRows(ds, segs, idx, acc) ==
  IF ds = <<>> THEN acc
  ELSE IF ds[1].act = NoVal THEN ScanRows(Tail(ds), segs, idx, acc)
  ELSE LET c == _ct_at(ds[1].ts, segs, idx)
           over == ds[1].act - c.ct
       IN  IF IsOvercycle(ds[1].act, c.ct, c.mult)
           THEN ScanRows(Tail(ds), segs, c.i,
                         [cnt |-> acc.cnt + 1, sum_over |-> acc.sum_over + over,
                          mx |-> IF over > acc.mx THEN over ELSE acc.mx])
           ELSE ScanRows(Tail(ds), segs, c.i, acc)

(* Lines 392-396: nothing is scanned without segments or without rows.     *)
StationScan(segs, ds) ==
  IF segs # <<>> /\ ds # <<>>
  THEN ScanRows(ds, segs, 0, [cnt |-> 0, sum_over |-> 0, mx |-> 0])
  ELSE [cnt |-> 0, sum_over |-> 0, mx |-> 0]

(* ---- _ct_at over bounded segment lists ---- *)
MaxSegs == 2
MaxSegTime == 2

CtVals == {0, 30}

MultVals == {1, 2}

(* Segment lists the store returns: effective_from strictly increasing.    *)
SegLists ==
  {q \in SeqsUpTo([t : 1..MaxSegTime, ct : CtVals, mult : MultVals], MaxSegs) :
     \A i \in 1..(Len(q) - 1) : q[i].t < q[i + 1].t}

CtInit ==
  /\ RollupIdle
  /\ PureIdleBut("ct")
  /\ \E segs \in SegLists : \E ts \in 0..(MaxSegTime + 1) : \E h \in (0 - 1)..MaxSegs :
       ct_call = [segs |-> segs, ts |-> ts, i_hint |-> h, done |-> FALSE, result |-> None]

call_ct_at ==
  /\ ~ct_call.done
  /\ ct_call' = [ct_call EXCEPT
                   !.done = TRUE,
                   !.result = _ct_at(ct_call.ts, ct_call.segs, ct_call.i_hint)]
  /\ UNCHANGED << rvars, delta_call, accum_run, scan_call, ovars, xvars >>

CtNext == call_ct_at

SpecCt == CtInit /\ [][CtNext]_vars

(* ---- the history scan over bounded histories ---- *)
MaxRows == 3

ActVals == {29, 30, 35, 45, 60, 61}

Example9Segs == << [t |-> 1, ct |-> 30, mult |-> 2] >>

Example9Rows == Stamp9(<< 29, 35, 61, 45 >>)

ScanInit ==
  /\ RollupIdle
  /\ PureIdleBut("scan")
  /\ \/ \E segs \in SegLists : \E acts \in SeqsUpTo(ActVals \cup {NoVal}, MaxRows) :
          scan_call = [segs |-> segs, ds |-> Stamp9(acts), done |-> FALSE,
                       result |-> None]
     \/ scan_call = [segs |-> Example9Segs, ds |-> Example9Rows, done |-> FALSE,
                      result |-> None]

call_station_scan ==
  /\ ~scan_call.done
  /\ scan_call' = [scan_call EXCEPT
                     !.done = TRUE,
                     !.result = StationScan(scan_call.segs, scan_call.ds)]
  /\ UNCHANGED << rvars, delta_call, accum_run, ct_call, ovars, xvars >>

ScanNext == call_station_scan

SpecScan == ScanInit /\ [][ScanNext]_vars

(* ======================= overcycle engine: tick ======================= *)
MaxOcTime == 10
MaxCycles == 2

_MAX_TOP == 5

(* Scaled to the model's day: the code's 18 hours are three quarters of a  *)
(* day, the code's 60 seconds a few timer periods.                         *)
_FINAL_GRACE_MIN == (3 * DayLen) \div 4
_SHIFT_REFRESH_SEC == 2 * TickPeriod

(* The CT segments of the store: one configuration from the start.         *)
StoreSegs == << [t |-> 0, ct |-> 30, mult |-> 2] >>

(* getCtSegmentsForStationBetween: the segments that overlap [a, b].       *)
getCtSegmentsForStationBetween(a, b) ==
  SelectSeq(StoreSegs,
            LAMBDA g : g.t <= b /\ \A g2 \in {StoreSegs[i] : i \in DOMAIN StoreSegs} :
                                     (g2.t > g.t) => g2.t > a)

(* Lines 262-298.                                                          *)
OcWindows(day) ==
  [i \in DOMAIN getShiftScheduleOnDate(day) |->
     [shid |-> getShiftScheduleOnDate(day)[i].shift_id, day |-> day,
      s_ms |-> getShiftScheduleOnDate(day)[i].start_time,
      e_ms |-> getShiftScheduleOnDate(day)[i].end_time]]

_load_shifts_if_needed(sh, t) ==
  IF sh.last_load # None /\ t - sh.last_load < _SHIFT_REFRESH_SEC /\ sh.today = DayOf(t)
  THEN sh
  ELSE [last_load |-> t, today |-> DayOf(t),
        by_line |-> OcWindows(DayOf(t) - 1) \o OcWindows(DayOf(t))]

NoWindow == [shid |-> None, day |-> None, s_ms |-> None, e_ms |-> None]

(* Lines 300-305.                                                          *)
RECURSIVE OcActive(_, _)
OcActive(wins, t) ==
  IF wins = <<>> THEN NoWindow
  ELSE IF wins[1].s_ms <= t /\ t < wins[1].e_ms THEN wins[1]
  ELSE OcActive(Tail(wins), t)

(* Lines 307-317.                                                          *)
RECURSIVE LastEnded(_, _, _)
LastEnded(wins, t, last) ==
  IF wins = <<>> THEN last
  ELSE IF wins[1].e_ms <= t THEN LastEnded(Tail(wins), t, wins[1])
  ELSE last

last_ended_without_grace(wins, t, grace) == LastEnded(wins, t, NoWindow)

_last_ended_shift_for_line(wins, t, grace) ==
  LET last == LastEnded(wins, t, NoWindow)
  IN  IF last.shid # None /\ (t - last.e_ms) <= grace THEN last ELSE NoWindow

(* The station rows the store holds for a shift.                           *)
CumRowsOf(cum, day) == {k \in DOMAIN cum : k[2] = day}

(* A plausible slip: the delta is always taken from the shift start.      *)
line_last_asof_from_start(cum, w) == w.s_ms

(* Lines 320-349: the latest as_of of the line's rows for the shift, else  *)
(* the shift start.                                                        *)
_line_last_asof(cum, w) ==
  IF CumRowsOf(cum, w.day) = {} THEN w.s_ms
  ELSE SetMax({cum[k].as_of : k \in CumRowsOf(cum, w.day)})

(* Lines 351-366.                                                          *)
_existing_station_rows(cum, w) == {k[1] : k \in CumRowsOf(cum, w.day)}

(* Lines 194-220: the rows of the CycleTime history in [a, b], without     *)
(* bounding values; nothing for a station without the tag.                 *)
_query_ct_history(st, a, b) ==
  IF ~st.tag THEN <<>>
  ELSE SelectSeq(cycle_hist, LAMBDA r : a <= r.ts /\ r.ts <= b)

(* Lines 369-460.                                                          *)
DeltaRow(st, w, a, b, existed, final) ==
  LET d == StationScan(getCtSegmentsForStationBetween(a, b), _query_ct_history(st, a, b))
  IN  IF d.cnt > 0 \/ d.sum_over > 0 \/ st.station_id \in existed \/ st.tag
      THEN << [station_id |-> st.station_id, day |-> w.day, as_of |-> b,
               inc_over_cnt |-> d.cnt, inc_over_sec |-> d.sum_over,
               inc_max_over_sec |-> d.mx, slot_duration_min |-> b - w.s_ms,
               is_final |-> final] >>
      ELSE <<>>

_compute_deltas_for_line(w, a, b, existed, final) ==
  Concat([i \in DOMAIN Stations |-> DeltaRow(Stations[i], w, a, b, existed, final)])

(* A store that adds every delta it is handed, whatever its as_of.        *)
RECURSIVE upsert_adding_every_delta(_, _)
upsert_adding_every_delta(cum, rows) ==
  IF rows = <<>> THEN cum
  ELSE LET r == rows[1]
           k == << r.station_id, r.day >>
           old == IF k \in DOMAIN cum THEN cum[k]
                  ELSE [as_of |-> r.as_of, cnt |-> 0, sum |-> 0, mx |-> 0, is_final |-> 0]
           new == [as_of |-> r.as_of, cnt |-> old.cnt + r.inc_over_cnt,
                   sum |-> old.sum + r.inc_over_sec,
                   mx |-> IF r.inc_max_over_sec > old.mx THEN r.inc_max_over_sec ELSE old.mx,
                   is_final |-> r.is_final]
       IN  upsert_adding_every_delta(
             [x \in DOMAIN cum \cup {k} |-> IF x = k THEN new ELSE cum[x]], Tail(rows))

(* upsertSlotStationBatch: an upsert keyed by (station, shift).  A delta   *)
(* is added to the cumulative row when the row is new or the delta's as_of *)
(* is later than the row's; a delta the row already holds changes nothing. *)
RECURSIVE upsertSlotStationBatch(_, _)
upsertSlotStationBatch(cum, rows) ==
  IF rows = <<>> THEN cum
  ELSE LET r == rows[1]
           k == << r.station_id, r.day >>
           old == IF k \in DOMAIN cum THEN cum[k]
                  ELSE [as_of |-> r.as_of, cnt |-> 0, sum |-> 0, mx |-> 0, is_final |-> 0]
           new == [as_of |-> r.as_of, cnt |-> old.cnt + r.inc_over_cnt,
                   sum |-> old.sum + r.inc_over_sec,
                   mx |-> IF r.inc_max_over_sec > old.mx THEN r.inc_max_over_sec ELSE old.mx,
                   is_final |-> r.is_final]
       IN  IF k \in DOMAIN cum /\ r.as_of <= cum[k].as_of
           THEN upsertSlotStationBatch(cum, Tail(rows))
           ELSE upsertSlotStationBatch(
                  [x \in DOMAIN cum \cup {k} |-> IF x = k THEN new ELSE cum[x]], Tail(rows))

(* getShiftAccumForLine: the per-station sums of the shift, by station.    *)
getShiftAccumForLine(cum, w) ==
  LET sids == {k[1] : k \in CumRowsOf(cum, w.day)}
      ord == SelectSeq([i \in DOMAIN Stations |-> Stations[i].station_id],
                       LAMBDA x : x \in sids)
  IN  [i \in DOMAIN ord |-> [sid |-> ord[i], sum_over |-> cum[<< ord[i], w.day >>].sum,
                             sum_cnt |-> cum[<< ord[i], w.day >>].cnt]]

(* sorted(..., reverse=True)[:_MAX_TOP]: descending by the key pair, equal *)
(* keys in their order of arrival.                                         *)
KeyLess(a, b) == a[1] < b[1] \/ (a[1] = b[1] /\ a[2] < b[2])

RECURSIVE InsertDesc(_, _)
InsertDesc(x, q) ==
  IF q = <<>> THEN << x >>
  ELSE IF KeyLess(q[1].key, x.key) THEN << x >> \o q
  ELSE << q[1] >> \o InsertDesc(x, Tail(q))

RECURSIVE SortDesc(_)
SortDesc(q) ==
  IF q = <<>> THEN <<>>
  ELSE InsertDesc(q[Len(q)], SortDesc(SubSeq(q, 1, Len(q) - 1)))

TopN(q) == SubSeq(q, 1, IF Len(q) < _MAX_TOP THEN Len(q) ELSE _MAX_TOP)

ByTime(acc) ==
  [i \in DOMAIN acc |-> [key |-> << acc[i].sum_over, acc[i].sum_cnt >>, sid |-> acc[i].sid]]

ByCount(acc) ==
  [i \in DOMAIN acc |-> [key |-> << acc[i].sum_cnt, acc[i].sum_over >>, sid |-> acc[i].sid]]

(* The publishes and the snapshot of one branch (lines 547-622, 660-741).  *)
Leaderboards(cum, w, as_of, final) ==
  LET acc == getShiftAccumForLine(cum, w)
      top_tim == TopN(SortDesc(ByTime(acc)))
      top_tot == TopN(SortDesc(ByCount(acc)))
  IN  << [kind |-> "publish", topic |-> "TopOvercycleTotals", day |-> w.day,
          final |-> final, top |-> [i \in DOMAIN top_tot |-> top_tot[i].sid]],
         [kind |-> "publish", topic |-> "TopOvercycleTimes", day |-> w.day,
          final |-> final, top |-> [i \in DOMAIN top_tim |-> top_tim[i].sid]],
         [kind |-> "line", day |-> w.day, as_of |-> as_of, final |-> final,
          is_published |-> 1 - final,
          top_totals |-> [i \in DOMAIN top_tot |-> top_tot[i].sid],
          top_times |-> [i \in DOMAIN top_tim |-> top_tim[i].sid]] >>

(* One branch of the loop body: the delta since the last as_of when there  *)
(* is one to take, then the leaderboards.  Returns the store's station     *)
(* rows and the outputs.                                                   *)
Branch(cum, w, as_of, final) ==
  LET last_asof == _line_last_asof(cum, w)
      rows == IF last_asof < as_of
              THEN _compute_deltas_for_line(w, last_asof, as_of,
                                            _existing_station_rows(cum, w), final)
              ELSE <<>>
      cum1 == upsertSlotStationBatch(cum, rows)
      writes == IF rows # <<>> THEN << [kind |-> "station", day |-> w.day,
                                        final |-> final, rows |-> rows] >>
                ELSE <<>>
  IN  [cum |-> cum1, out |-> writes \o Leaderboards(cum1, w, as_of, final)]

(* Lines 511-625.                                                          *)
FinalizeBranch(cum, sh, t) ==
  LET prev == _last_ended_shift_for_line(sh.by_line, t, _FINAL_GRACE_MIN)
  IN  IF prev.shid # None THEN Branch(cum, prev, prev.e_ms, 1)
      ELSE [cum |-> cum, out |-> <<>>]

(* Lines 627-743.                                                          *)
CurrentBranch(b, sh, t) ==
  LET cur == OcActive(sh.by_line, t)
      r == Branch(b.cum, cur, IF t < cur.e_ms THEN t ELSE cur.e_ms, 0)
  IN  IF cur.shid # None THEN [cum |-> r.cum, out |-> b.out \o r.out] ELSE b

RECURSIVE ApplyLine(_, _)
ApplyLine(snap, out) ==
  IF out = <<>> THEN snap
  ELSE IF out[1].kind = "line"
       THEN ApplyLine([d \in DOMAIN snap \cup {out[1].day} |->
                         IF d = out[1].day THEN out[1] ELSE snap[d]], Tail(out))
       ELSE ApplyLine(snap, Tail(out))

Has(out, kind, day) ==
  \E i \in DOMAIN out : out[i].kind = kind /\ out[i].day = day /\ out[i].final = 1

OcCommit(r) ==
  /\ station_cum' = r.cum
  /\ line_snap' = ApplyLine(line_snap, r.out)
  /\ oc_out' = r.out
  /\ finalized' = finalized \cup
       {d \in 0..MaxDay : Has(r.out, "station", d) /\ Has(r.out, "publish", d)
                            /\ Has(r.out, "line", d)}
  /\ late_outputs' = late_outputs +
       Cardinality({i \in DOMAIN r.out : r.out[i].final = 1 /\ r.out[i].day \in finalized})

OvercycleInit ==
  /\ RollupIdle
  /\ PureIdleBut("overcycle")
  /\ oc_now = 0
  /\ oc_ticked = FALSE
  /\ cycle_hist = <<>>
  /\ _shifts = [last_load |-> None, today |-> None, by_line |-> <<>>]
  /\ station_cum = <<>>
  /\ line_snap = <<>>
  /\ oc_out = <<>>
  /\ finalized = {}
  /\ late_outputs = 0

OcAdvance ==
  /\ oc_now < MaxOcTime
  /\ ~IsTickInstant(oc_now) \/ oc_ticked
  /\ oc_now' = oc_now + 1
  /\ oc_ticked' = FALSE
  /\ UNCHANGED << cycle_hist, _shifts, station_cum, line_snap, oc_out, finalized,
                  late_outputs >>
  /\ UNCHANGED << rvars, delta_call, accum_run, ct_call, scan_call, xvars >>

(* The station completes a cycle; the historian records its duration with  *)
(* the instant of completion, which may be the very instant of a timer     *)
(* tick, before or after the tick runs.                                    *)
CycleSample ==
  /\ Len(cycle_hist) < MaxCycles
  /\ IF cycle_hist = <<>> THEN TRUE ELSE cycle_hist[Len(cycle_hist)].ts < oc_now
  /\ \E act \in {35, 45, 61} :
       cycle_hist' = Append(cycle_hist, [ts |-> oc_now, act |-> act])
  /\ UNCHANGED << oc_now, oc_ticked, _shifts, station_cum, line_snap, oc_out,
                  finalized, late_outputs >>
  /\ UNCHANGED << rvars, delta_call, accum_run, ct_call, scan_call, xvars >>

(* Lines 463-748: one tick of the overcycle timer, for the one line.       *)
run_overcycle ==
  /\ IsTickInstant(oc_now)
  /\ ~oc_ticked
  /\ oc_ticked' = TRUE
  /\ _shifts' = _load_shifts_if_needed(_shifts, oc_now)
  /\ OcCommit(CurrentBranch(FinalizeBranch(station_cum, _shifts', oc_now), _shifts', oc_now))
  /\ UNCHANGED << oc_now, cycle_hist >>
  /\ UNCHANGED << rvars, delta_call, accum_run, ct_call, scan_call, xvars >>

OvercycleNext ==
  \/ OcAdvance
  \/ CycleSample
  \/ run_overcycle

SpecOvercycle == OvercycleInit /\ [][OvercycleNext]_vars

(* ======================= properties: overcycle engine ======================= *)
(* C7: after the tick that finalizes a just-ended shift (final catch-up    *)
(* delta, final leaderboards, final line snapshot) no later tick writes to *)
(* the store or publishes for that shift.                                  *)
C7_NoOutputAfterFinalize == late_outputs = 0

(* ======================= properties: pure functions ======================= *)
PrefixMax(q, i) == SetMax({q[j] : j \in 1..i})

(* The sum, over the samples after the first, of what each adds above the  *)
(* greatest sample before it.                                              *)
SumAbovePeak(q) ==
  IF q = <<>> THEN 0
  ELSE SeqSum([i \in 1..(Len(q) - 1) |-> Max0(q[i + 1] - PrefixMax(q, i))])

WindowSamples(c) == Numeric(queryTagHistory(c.series, c.start, c.end, TRUE))

(* C5: the historian positive delta is the sum of (v - peak) over the      *)
(* samples above the running peak, a peak that dips never lower; it is 0   *)
(* without samples, without a tag, or when start >= end.                   *)
C5_PositiveDelta ==
  delta_call.done =>
    delta_call.result =
      (IF ~delta_call.tag \/ delta_call.start >= delta_call.end THEN 0
       ELSE SumAbovePeak(WindowSamples(delta_call)))

(* A call over a window whose samples dip and that still counts a rise.    *)
C5_Witness ==
  /\ delta_call.done
  /\ delta_call.result > 0
  /\ \E i \in 1..(Len(WindowSamples(delta_call)) - 1) :
       WindowSamples(delta_call)[i + 1] < WindowSamples(delta_call)[i]

IsExample6(c) ==
  c.tag /\ c.series = Stamp(Example6) /\ c.start = 1 /\ c.end = Len(Example6)

(* C6 as stated: the positive delta of 10,11,12,3,4,5,13 is 13.            *)
C6_Example13 == (delta_call.done /\ IsExample6(delta_call)) => delta_call.result = 13

(* C6 amended: the positive delta of 10,11,12,3,4,5,13 is 3.               *)
C6_Example3 == (delta_call.done /\ IsExample6(delta_call)) => delta_call.result = 3

C6_Witness == delta_call.done /\ IsExample6(delta_call) /\ delta_call.result = 3

(* The sum of the rises between consecutive readings.                      *)
SumOfRises(q) ==
  SeqSum([i \in 1..(Len(q) - 1) |-> Max0(q[i + 1] - q[i])])

(* C4: over the readings of one hour window hour_total is the sum of the   *)
(* rises between consecutive readings, a reading below last_peak adds      *)
(* nothing and becomes last_peak; hour_total never decreases, is never     *)
(* negative, and the readings 50, 55, 0, 7 give 12.                        *)
C4_ResetSafeAccumulation ==
  /\ accum_run.s.hour_total = SumOfRises(accum_run.seen)
  /\ accum_run.s.last_peak = accum_run.seen[Len(accum_run.seen)]
  /\ accum_run.s.hour_total >= accum_run.before
  /\ accum_run.s.hour_total >= 0
  /\ accum_run.seen = << 50, 55, 0, 7 >> => accum_run.s.hour_total = 12

C4_Witness == accum_run.seen = << 50, 55, 0, 7 >> /\ accum_run.s.hour_total = 12

(* C10 as stated: for segments with strictly increasing effective_from    *)
(* the lookup returns the segment i with t_i <= t < t_(i+1), never one     *)
(* that takes effect later than t.                                         *)
C10_CtLookupInForce ==
  (ct_call.done /\ ct_call.segs # <<>>) =>
    LET i == ct_call.result.i + 1
        segs == ct_call.segs
    IN  /\ segs[i].t <= ct_call.ts
        /\ i = Len(segs) \/ ct_call.ts < segs[i + 1].t
        /\ ct_call.result.ct = segs[i].ct
        /\ ct_call.result.mult = segs[i].mult

(* The segment the scan applies to a sample: the one in force at ts, and   *)
(* the first segment for a sample earlier than every segment.              *)
Applied(segs, ts) ==
  segs[IF ts < segs[1].t THEN 1 ELSE SetMax({i \in DOMAIN segs : segs[i].t <= ts})]

Counted(c) ==
  {i \in DOMAIN c.ds :
     /\ c.segs # <<>>
     /\ c.ds[i].act # NoVal
     /\ Applied(c.segs, c.ds[i].ts).ct > 0
     /\ Applied(c.segs, c.ds[i].ts).ct < c.ds[i].act
     /\ c.ds[i].act <= Applied(c.segs, c.ds[i].ts).ct * Applied(c.segs, c.ds[i].ts).mult}

Overs(c) ==
  [i \in DOMAIN c.ds |->
     IF i \in Counted(c) THEN c.ds[i].act - Applied(c.segs, c.ds[i].ts).ct ELSE 0]

(* C9: a sample counts as an overcycle iff ct > 0 and ct < act <= ct*mult  *)
(* for its segment, and then contributes act - ct; cnt, sum_over and       *)
(* max_over are the number, the sum and the maximum over those samples;    *)
(* ct=30, mult=2 and act 29, 35, 61, 45 give 2, 20 and 15.                 *)
C9_OvercycleClassification ==
  scan_call.done =>
    /\ scan_call.result.cnt = Cardinality(Counted(scan_call))
    /\ scan_call.result.sum_over = SeqSum(Overs(scan_call))
    /\ scan_call.result.mx = SetMax({0} \cup {Overs(scan_call)[i] : i \in DOMAIN scan_call.ds})
    /\ (scan_call.segs = Example9Segs /\ scan_call.ds = Example9Rows) =>
          scan_call.result = [cnt |-> 2, sum_over |-> 20, mx |-> 15]

C9_Witness ==
  /\ scan_call.done
  /\ scan_call.segs = Example9Segs
  /\ scan_call.ds = Example9Rows
  /\ scan_call.result.cnt = 2


(* ======================= cycle-time and target engine ======================= *)
(* ---- exact arithmetic for the cycle times: a value is n / d with d > 0 ---- *)
RECURSIVE Gcd(_, _)
Gcd(a, b) == IF b = 0 THEN a ELSE Gcd(b, a % b)

Abs(x) == IF x < 0 THEN 0 - x ELSE x

Rat(n, d) ==
  LET g == Gcd(Abs(n), d)
  IN  IF g = 0 THEN [n |-> 0, d |-> 1] ELSE [n |-> n \div g, d |-> d \div g]

RatAdd(x, y) == Rat(x.n * y.d + y.n * x.d, x.d * y.d)

RatSub(x, y) == Rat(x.n * y.d - y.n * x.d, x.d * y.d)

RatMul(x, y) == Rat(x.n * y.n, x.d * y.d)

RatPos(x) == x.n > 0

(* int(a / x) for a >= 0 and x > 0.                                          *)
FloorDivRat(a, x) == (a * x.d) \div x.n

SeqMax(q) == SetMax({q[i] : i \in DOMAIN q})

Clamp(x, lo, hi) == IF x < lo THEN lo ELSE IF x > hi THEN hi ELSE x

(* A plausible slip: the parallel term is the slowest fixture itself, not  *)
(* divided by the number of fixtures.                                      *)
ct_eff_par_undivided(ct_list, fixtures_per_side, parallelism_factor) ==
  LET cts == SelectSeq(ct_list, LAMBDA c : c > 0)
      k == Len(cts)
      mean_ct == Rat(SeqSum(cts), k)
      par_ct == Rat(SeqMax(cts), 1)
      lam == Rat(Clamp(parallelism_factor, 0, 10), 10)
  IN  IF k = 0 THEN Rat(0, 1)
      ELSE IF k = 1 THEN Rat(cts[1], 1)
      ELSE IF parallelism_factor = None THEN mean_ct
      ELSE RatAdd(RatMul(RatSub(Rat(1, 1), lam), mean_ct), RatMul(lam, par_ct))

(* Lines 451-474.  The parallelism factor is given in tenths; None stands *)
(* for the argument left out.                                              *)
_ct_eff_from_cts(ct_list, fixtures_per_side, parallelism_factor) ==
  LET cts == SelectSeq(ct_list, LAMBDA c : c > 0)
      k == Len(cts)
      mean_ct == Rat(SeqSum(cts), k)
      par_ct == Rat(SeqMax(cts), k)
      lam == Rat(Clamp(parallelism_factor, 0, 10), 10)
  IN  IF k = 0 THEN Rat(0, 1)
      ELSE IF k = 1 THEN Rat(cts[1], 1)
      ELSE IF parallelism_factor = None THEN mean_ct
      ELSE RatAdd(RatMul(RatSub(Rat(1, 1), lam), mean_ct), RatMul(lam, par_ct))

(* ---- break-aware working time ---- *)
(* Lines 325-334 (and the same function at ProductionPublisher 209-221):  *)
(* spans are the break spans cached for the line.                          *)
(* A plausible slip: hi - lo is added to the blocked time without the     *)
(* test hi > lo.                                                           *)
overlap_unguarded(start_ms, end_ms, sp) ==
  (IF end_ms < sp.e THEN end_ms ELSE sp.e) - (IF start_ms > sp.s THEN start_ms ELSE sp.s)

(* Lines 330-333: the part of a break span inside the window.              *)
Overlap(start_ms, end_ms, sp) ==
  LET lo == IF start_ms > sp.s THEN start_ms ELSE sp.s
      hi == IF end_ms < sp.e THEN end_ms ELSE sp.e
  IN  IF hi > lo THEN hi - lo ELSE 0

RECURSIVE Blocked(_, _, _)
Blocked(start_ms, end_ms, spans) ==
  IF spans = <<>> THEN 0
  ELSE Overlap(start_ms, end_ms, spans[1]) + Blocked(start_ms, end_ms, Tail(spans))

_working_ms(start_ms, end_ms, spans) ==
  LET total == Max0(end_ms - start_ms)
  IN  IF total = 0 THEN 0
      ELSE IF spans = <<>> THEN total
      ELSE Max0(total - Blocked(start_ms, end_ms, spans))

(* Lines 280-323: the active break spans of yesterday and today, sorted   *)
(* and merged where they overlap or touch.                                 *)
SpanLess(a, b) == a.s < b.s \/ (a.s = b.s /\ a.e < b.e)

RECURSIVE InsertSpan(_, _)
InsertSpan(x, q) ==
  IF q = <<>> THEN << x >>
  ELSE IF SpanLess(x, q[1]) THEN << x >> \o q
  ELSE << q[1] >> \o InsertSpan(x, Tail(q))

RECURSIVE SortSpans(_)
SortSpans(q) == IF q = <<>> THEN <<>> ELSE InsertSpan(q[1], SortSpans(Tail(q)))

RECURSIVE MergeSorted(_, _)
MergeSorted(q, merged) ==
  IF q = <<>> THEN merged
  ELSE IF (IF merged = <<>> THEN TRUE ELSE q[1].s > merged[Len(merged)].e)
       THEN MergeSorted(Tail(q), Append(merged, q[1]))
       ELSE MergeSorted(Tail(q),
              [merged EXCEPT ![Len(merged)].e =
                 IF q[1].e > merged[Len(merged)].e THEN q[1].e ELSE merged[Len(merged)].e])

(* A plausible slip: a merged span takes the end of the span merged last. *)
RECURSIVE MergeSortedLastEnd(_, _)
MergeSortedLastEnd(q, merged) ==
  IF q = <<>> THEN merged
  ELSE IF (IF merged = <<>> THEN TRUE ELSE q[1].s > merged[Len(merged)].e)
       THEN MergeSortedLastEnd(Tail(q), Append(merged, q[1]))
       ELSE MergeSortedLastEnd(Tail(q), [merged EXCEPT ![Len(merged)].e = q[1].e])

merge_spans_last_end(rows) ==
  MergeSortedLastEnd(SortSpans(SelectSeq(rows, LAMBDA r : r.e > r.s)), <<>>)

MergeSpans(rows) ==
  MergeSorted(SortSpans(SelectSeq(rows, LAMBDA r : r.e > r.s)), <<>>)


(* ---- configuration read from the store ---- *)
(* Two critical stations on line 1, one fixture each.  Station 1 runs     *)
(* part A or B; part C has no cycle time configured.  Station 2 has one    *)
(* configured part, no live part and no good TotalParts read.              *)
TgStations ==
  << [station_id |-> 1, line_id |-> 1, fixtures_per_side |-> 1, is_turntable |-> FALSE,
      is_critical |-> TRUE, parallelism_factor |-> 0],
     [station_id |-> 2, line_id |-> 1, fixtures_per_side |-> 1, is_turntable |-> FALSE,
      is_critical |-> TRUE, parallelism_factor |-> 0] >>

TgStationIds == {TgStations[i].station_id : i \in DOMAIN TgStations}

(* _refresh_station_ct_config (lines 151-202): part -> cycle time and     *)
(* part -> overcycle multiplier, for the parts with a positive cycle time. *)
PartCTs(sid) ==
  IF sid = 1 THEN [p \in {"A", "B"} |-> IF p = "A" THEN 30 ELSE 50]
  ELSE [p \in {"X"} |-> 60]

PartMults(sid) ==
  IF sid = 1 THEN [p \in {"A", "B"} |-> 2] ELSE [p \in {"X"} |-> 2]

PartNames == {"A", "B", "C"}

(* Seconds in one unit of the model's clock: an hour is HourLen units.     *)
SecPerUnit == 3600 \div HourLen

(* One active break per day on line 1, in the first hour of the day.       *)
getBreaksOnDate(day) ==
  IF day < 0 THEN <<>>
  ELSE << [s |-> day * DayLen + 1, e |-> day * DayLen + 2] >>

_load_breaks_if_needed(t) ==
  MergeSpans(getBreaksOnDate(DayOf(t) - 1) \o getBreaksOnDate(DayOf(t)))

_hour_working_seconds(hour_start_ms, spans) ==
  _working_ms(hour_start_ms, hour_start_ms + HourLen, spans) * SecPerUnit

(* ---- per-station state ---- *)
DEBOUNCE_TICKS == 1

Rat0 == Rat(0, 1)

NoRat == [n |-> None, d |-> 1]

NoPartsKey == << "None" >>

NoPending ==
  [ct_eff_sec |-> Rat0, parts_used |-> <<>>, ct_mode |-> "none", poll_ms |-> 0,
   overcycle_multiplier |-> Rat0]

(* Lines 624-651: the state of a station seen for the first time.          *)
NewTState(hour_utc_ms) ==
  [prev_total_flat |-> None, last_parts_key |-> NoPartsKey, stable_ticks |-> 0,
   ct_eff |-> Rat0, seg_opened |-> FALSE, pending_seg |-> NoPending,
   last_increment_prev |-> None, last_increment_ms |-> 0,
   overcycle_multiplier |-> NoRat, force_open_now |-> FALSE,
   hour_start_utc_ms |-> hour_utc_ms, last_hour_base |-> None,
   shift_id |-> None, shift_date |-> None, shift_start_ms |-> None,
   shift_end_ms |-> None, last_shift_base |-> None]

(* Lines 622-656: init, or the hour rollover of a known station.           *)
TgInitOrRoll(ts, sid, hour_utc_ms) ==
  IF sid \notin DOMAIN ts THEN NewTState(hour_utc_ms)
  ELSE IF ts[sid].hour_start_utc_ms # hour_utc_ms
       THEN [ts[sid] EXCEPT !.hour_start_utc_ms = hour_utc_ms, !.last_hour_base = None]
       ELSE ts[sid]

(* Lines 658-678: increment detection on the station's TotalParts; only   *)
(* station 1 is read with good quality.                                    *)
TgDetectIncrement(s, sid, val, t) ==
  IF sid # 1 THEN s
  ELSE IF s.prev_total_flat # None /\ val > s.prev_total_flat
       THEN [s EXCEPT !.prev_total_flat = val,
                      !.last_increment_prev = s.prev_total_flat,
                      !.last_increment_ms = t]
       ELSE [s EXCEPT !.prev_total_flat = val]

(* Lines 417-448: the rows of the raw query with bounding values, each    *)
(* with its own timestamp, and the first one above the previous value.     *)
(* The start is the instant of a tick and a sample of that instant was     *)
(* recorded before the tick, so it is the bounding value.                  *)
queryTagHistoryRows(h, startDate, endDate) ==
  LET k == CountUpTo(h, startDate)
      m == CountUpTo(h, endDate)
      lo == IF k >= 1 THEN k ELSE k + 1
  IN  IF startDate > endDate THEN <<>> ELSE SubSeq(h, lo, m)

(* The result is << ts >>, or << >> where the code returns None.           *)
RECURSIVE FirstAbove(_, _)
FirstAbove(ds, base) ==
  IF ds = <<>> THEN <<>>
  ELSE IF ds[1].v = NoVal THEN FirstAbove(Tail(ds), base)
  ELSE IF base = None THEN FirstAbove(Tail(ds), ds[1].v)
  ELSE IF ds[1].v > base THEN << ds[1].ts >>
  ELSE FirstAbove(Tail(ds), base)

_first_increment_ts(h, prev_val, start_ms, end_ms) ==
  FirstAbove(queryTagHistoryRows(h, start_ms, end_ms), prev_val)


(* ---- the per-station step of the tick ---- *)
(* _read_current_parts (lines 357-414): the non-empty part numbers on the *)
(* station's fixtures, at most fixtures_per_side of them.                  *)
Take(q, n) == SubSeq(q, 1, IF n < Len(q) THEN n ELSE Len(q))

_safe_n(fps) == IF fps < 1 THEN 1 ELSE fps

_read_current_parts(st, part) ==
  IF st.station_id = 1 /\ part # "" THEN Take(<< part >>, _safe_n(st.fixtures_per_side))
  ELSE <<>>

CfgMax(cfg_cts) == SetMax({cfg_cts[p] : p \in DOMAIN cfg_cts})

RECURSIVE PadSeq(_, _, _)
PadSeq(q, n, x) == IF Len(q) >= n THEN q ELSE PadSeq(Append(q, x), n, x)

(* sorted(cfg_cts.items(), key = ct, reverse = True)[:n]                   *)
RECURSIVE SlowestParts(_, _, _)
SlowestParts(cfg_cts, left, n) ==
  IF n = 0 \/ left = {} THEN <<>>
  ELSE LET p == CHOOSE x \in left : \A y \in left : cfg_cts[y] <= cfg_cts[x]
       IN  << p >> \o SlowestParts(cfg_cts, left \ {p}, n - 1)

(* Lines 705-742: missing-configuration detection and the cycle times the *)
(* effective CT is computed from.                                          *)
CtPlan(live_parts, cfg_cts, fps) ==
  LET live == Take(live_parts, fps)
      bad == {i \in DOMAIN live :
                IF live[i] \in DOMAIN cfg_cts THEN cfg_cts[live[i]] <= 0 ELSE TRUE}
      slow == SlowestParts(cfg_cts, DOMAIN cfg_cts, fps)
  IN  IF live_parts # <<>>
      THEN IF bad # {}
           THEN [is_missing_cfg |-> TRUE, parts_used |-> live, ct_list |-> <<>>]
           ELSE [is_missing_cfg |-> FALSE,
                 parts_used |-> PadSeq(live, fps, live[1]),
                 ct_list |-> PadSeq([i \in DOMAIN live |-> cfg_cts[live[i]]], fps,
                                    CfgMax(cfg_cts))]
      ELSE IF DOMAIN cfg_cts = {}
           THEN [is_missing_cfg |-> TRUE, parts_used |-> <<>>, ct_list |-> <<>>]
           ELSE [is_missing_cfg |-> FALSE,
                 parts_used |-> PadSeq(slow, fps, slow[1]),
                 ct_list |-> PadSeq([i \in DOMAIN slow |-> cfg_cts[slow[i]]], fps,
                                    cfg_cts[slow[1]])]

(* Lines 744-750: debounce of the parts set.                               *)
TgDebounce(s, plan) ==
  IF plan.parts_used = s.last_parts_key
  THEN [s EXCEPT !.stable_ticks =
                   IF s.stable_ticks + 1 < DEBOUNCE_TICKS THEN s.stable_ticks + 1
                   ELSE DEBOUNCE_TICKS]
  ELSE [s EXCEPT !.last_parts_key = plan.parts_used,
                 !.stable_ticks = IF plan.is_missing_cfg THEN DEBOUNCE_TICKS ELSE 1]

(* Lines 752-763: the new effective CT; s is the state after the debounce. *)
TgCtEffNew(s, plan, cfg_cts, fps, lam) ==
  IF plan.is_missing_cfg THEN Rat0
  ELSE IF plan.parts_used # <<>>
       THEN IF s.stable_ticks >= DEBOUNCE_TICKS
            THEN _ct_eff_from_cts(plan.ct_list, fps, lam) ELSE s.ct_eff
       ELSE IF ~RatPos(s.ct_eff) /\ DOMAIN cfg_cts # {}
            THEN LET slow == SlowestParts(cfg_cts, DOMAIN cfg_cts, fps)
                 IN  _ct_eff_from_cts([i \in DOMAIN slow |-> cfg_cts[slow[i]]], fps, lam)
            ELSE s.ct_eff

(* Lines 765-786: the effective overcycle multiplier.                      *)
SeqMin(q) == CHOOSE x \in {q[i] : i \in DOMAIN q} : \A i \in DOMAIN q : x <= q[i]

TgEffMult(plan, cfg_mults, lam) ==
  LET known == SelectSeq(plan.parts_used, LAMBDA p : p \in DOMAIN cfg_mults)
      vals == SelectSeq([i \in DOMAIN known |-> cfg_mults[known[i]]], LAMBDA m : m > 0)
      l == Rat(Clamp(lam, 0, 10), 10)
  IN  IF plan.is_missing_cfg \/ vals = <<>> THEN Rat0
      ELSE IF Len(vals) = 1 THEN Rat(vals[1], 1)
      ELSE RatAdd(RatMul(RatSub(Rat(1, 1), l), Rat(SeqSum(vals), Len(vals))),
                  RatMul(l, Rat(SeqMin(vals), 1)))


(* Lines 238-278: the shift windows of yesterday and today, by start, and *)
(* the one active at t.                                                    *)
TgActiveShift(t) == OcActive(OcWindows(DayOf(t) - 1) \o OcWindows(DayOf(t)), t)

(* Lines 788-798: the station follows the line's current shift window.     *)
TgShiftStep(s, win) ==
  IF s.shift_id # win.shid \/ s.shift_date # win.day
  THEN [s EXCEPT !.shift_id = win.shid, !.shift_date = win.day,
                 !.shift_start_ms = win.s_ms, !.shift_end_ms = win.e_ms,
                 !.last_shift_base = None]
  ELSE [s EXCEPT !.shift_end_ms = win.e_ms]

(* What a station's step hands on: its state, the CT segments it wrote,   *)
(* its target rows and what its hourly step computed.                      *)
TgCtx(s, writes) ==
  [s |-> s, writes |-> writes, hourly |-> <<>>, shift |-> <<>>, emit |-> <<>>]

SegRow(sid, effective_from_utc, pend) ==
  [station_id |-> sid, effective_from_utc |-> effective_from_utc,
   ct_eff_sec |-> pend.ct_eff_sec, ct_mode |-> pend.ct_mode,
   overcycle_multiplier |-> pend.overcycle_multiplier]

(* Lines 801-823: whether a new segment is needed, and the buffered one.   *)
NeedNewSeg(s, plan, ct_eff_new, eff_mult) ==
  IF ~s.seg_opened THEN RatPos(ct_eff_new) \/ plan.is_missing_cfg
  ELSE \/ ct_eff_new # s.ct_eff
       \/ s.overcycle_multiplier = NoRat
       \/ eff_mult # s.overcycle_multiplier

PendingSeg(s, plan, ct_eff_new, eff_mult, t) ==
  IF NeedNewSeg(s, plan, ct_eff_new, eff_mult)
  THEN [ct_eff_sec |-> ct_eff_new, parts_used |-> plan.parts_used,
        ct_mode |-> IF plan.is_missing_cfg THEN "missing-config"
                    ELSE IF plan.parts_used # <<>> THEN "live-fixtures"
                    ELSE "fallback-config",
        poll_ms |-> t, overcycle_multiplier |-> eff_mult]
  ELSE s.pending_seg

(* Lines 847-852: the time a pinned segment takes effect.                  *)
PinnedTs(h, inc_prev, poll_ms, t) ==
  IF _first_increment_ts(h, inc_prev, poll_ms, t) = <<>> THEN t
  ELSE _first_increment_ts(h, inc_prev, poll_ms, t)[1]

(* Lines 825-869: open the buffered segment now (missing configuration or *)
(* forced), or at the first counter increment since it was buffered.       *)
OpenSeg(sid, s, pend, h, t) ==
  IF pend.ct_mode = "none" THEN TgCtx(s, <<>>)
  ELSE IF pend.ct_mode = "missing-config" \/ s.force_open_now
  THEN TgCtx([s EXCEPT !.seg_opened = TRUE, !.pending_seg = NoPending,
                       !.overcycle_multiplier = pend.overcycle_multiplier,
                       !.force_open_now = FALSE],
             << SegRow(sid, t, pend) >>)
  ELSE IF s.last_increment_prev # None /\ s.last_increment_ms >= pend.poll_ms
  THEN TgCtx([s EXCEPT !.seg_opened = TRUE, !.pending_seg = NoPending,
                       !.overcycle_multiplier = pend.overcycle_multiplier],
             << SegRow(sid, PinnedTs(h, s.last_increment_prev, pend.poll_ms, t), pend) >>)
  ELSE TgCtx([s EXCEPT !.pending_seg = pend], <<>>)

(* Lines 800-873: the CT segment step, then the commit of the CT.          *)
TgSegments(sid, s, plan, ct_eff_new, eff_mult, h, t) ==
  [OpenSeg(sid, s, PendingSeg(s, plan, ct_eff_new, eff_mult, t), h, t)
     EXCEPT !.s.ct_eff = ct_eff_new]

(* Lines 879-895: the break-aware hourly base of a critical station.       *)
HourBase(s, spans) ==
  IF RatPos(s.ct_eff) /\ _hour_working_seconds(s.hour_start_utc_ms, spans) > 0
  THEN FloorDivRat(_hour_working_seconds(s.hour_start_utc_ms, spans), s.ct_eff)
  ELSE 0

TgHourly(st, c, spans) ==
  IF ~st.is_critical THEN c
  ELSE IF c.s.last_hour_base = None \/ HourBase(c.s, spans) # c.s.last_hour_base
  THEN [c EXCEPT !.s.last_hour_base = HourBase(c.s, spans),
                 !.hourly = IF HourBase(c.s, spans) > 0
                            THEN << [station_id |-> st.station_id, line_id |-> st.line_id,
                                     hour_start_utc_ms |-> c.s.hour_start_utc_ms,
                                     target_parts_base |-> HourBase(c.s, spans)] >>
                            ELSE <<>>,
                 !.emit = << [station_id |-> st.station_id,
                              hour |-> c.s.hour_start_utc_ms,
                              ct_pos |-> RatPos(c.s.ct_eff),
                              value |-> HourBase(c.s, spans),
                              emitted |-> HourBase(c.s, spans) > 0] >>]
  ELSE [c EXCEPT !.emit = << [station_id |-> st.station_id,
                              hour |-> c.s.hour_start_utc_ms,
                              ct_pos |-> RatPos(c.s.ct_eff),
                              value |-> HourBase(c.s, spans), emitted |-> FALSE] >>]

(* Lines 897-912: the break-aware base of the station's current shift.     *)
ShiftBase(s, spans) ==
  IF RatPos(s.ct_eff) /\ _working_ms(s.shift_start_ms, s.shift_end_ms, spans) > 0
  THEN FloorDivRat(_working_ms(s.shift_start_ms, s.shift_end_ms, spans) * SecPerUnit,
                   s.ct_eff)
  ELSE 0

Truthy(x) == x # None /\ x # 0

TgShiftBase(st, c, spans) ==
  IF st.is_critical /\ c.s.shift_id # None /\ Truthy(c.s.shift_start_ms)
     /\ Truthy(c.s.shift_end_ms)
     /\ (c.s.last_shift_base = None \/ ShiftBase(c.s, spans) # c.s.last_shift_base)
  THEN [c EXCEPT !.s.last_shift_base = ShiftBase(c.s, spans),
                 !.shift = << [station_id |-> st.station_id, shift_id |-> c.s.shift_id,
                               shift_local_date |-> c.s.shift_date,
                               target_parts_base |-> ShiftBase(c.s, spans)] >>]
  ELSE c

(* Lines 684-912: the body of the station loop; s1 is the state after the *)
(* debounce and the shift step.                                            *)
TgAfterDebounce(st, s, part, t) ==
  TgShiftStep(TgDebounce(s, CtPlan(_read_current_parts(st, part), PartCTs(st.station_id),
                                   _safe_n(st.fixtures_per_side))),
              TgActiveShift(t))

TgStationFrom(st, s0, s1, part, h, t, spans) ==
  TgShiftBase(st,
    TgHourly(st,
      TgSegments(st.station_id, s1,
                 CtPlan(_read_current_parts(st, part), PartCTs(st.station_id),
                        _safe_n(st.fixtures_per_side)),
                 TgCtEffNew(s1, CtPlan(_read_current_parts(st, part), PartCTs(st.station_id),
                                       _safe_n(st.fixtures_per_side)),
                            PartCTs(st.station_id), _safe_n(st.fixtures_per_side),
                            st.parallelism_factor),
                 TgEffMult(CtPlan(_read_current_parts(st, part), PartCTs(st.station_id),
                                  _safe_n(st.fixtures_per_side)),
                           PartMults(st.station_id), st.parallelism_factor),
                 h, t),
      spans),
    spans)

TgStation(st, s0, part, h, t, spans) ==
  TgStationFrom(st, s0, TgAfterDebounce(st, s0, part, t), part, h, t, spans)


(* ---- the store ---- *)
Upsert(store, key, val) ==
  [k \in DOMAIN store \cup {key} |-> IF k = key THEN val ELSE store[k]]

RECURSIVE UpsertRows(_, _, _)
UpsertRows(store, kind, rows) ==
  IF rows = <<>> THEN store
  ELSE UpsertRows(Upsert(store,
                         << kind, rows[1].station_id,
                            IF kind = "hour" THEN rows[1].hour_start_utc_ms
                            ELSE rows[1].shift_local_date >>,
                         rows[1].target_parts_base),
                  kind, Tail(rows))

(* upsertHourlyTargetsBatch and upsertShiftTargetsBatch (lines 914-925).   *)
upsertTargetsBatches(store, h_rows, sh_rows) ==
  UpsertRows(UpsertRows(store, "hour", h_rows), "shift", sh_rows)

(* ---- repair of missing bases ---- *)
_REPAIR_PERIOD_SEC == 2 * TickPeriod

(* Lines 476-492: the station's CT, else the one its configuration gives. *)
_ct_eff_for_station(ts, st) ==
  IF st.station_id \in DOMAIN ts /\ RatPos(ts[st.station_id].ct_eff)
  THEN ts[st.station_id].ct_eff
  ELSE IF DOMAIN PartCTs(st.station_id) = {} THEN Rat0
  ELSE LET slow == SlowestParts(PartCTs(st.station_id), DOMAIN PartCTs(st.station_id),
                                _safe_n(st.fixtures_per_side))
       IN  _ct_eff_from_cts([i \in DOMAIN slow |-> PartCTs(st.station_id)[slow[i]]],
                            _safe_n(st.fixtures_per_side), st.parallelism_factor)

(* getHoursMissingBase: the hours up to the current one, of every station, *)
(* that have no base target in the store.                                  *)
getHoursMissingBase(store, t) ==
  {<< sid, h >> \in TgStationIds \X {k * HourLen : k \in 0..(t \div HourLen)} :
     << "hour", sid, h >> \notin DOMAIN store}

(* getShiftsMissingBase: the shifts begun so far without a base target.    *)
getShiftsMissingBase(store, t) ==
  {<< sid, d >> \in TgStationIds \X (0..DayOf(t)) :
     /\ d * DayLen + ShiftStartOff <= t
     /\ << "shift", sid, d >> \notin DOMAIN store}

StationOf(sid) == TgStations[CHOOSE i \in DOMAIN TgStations : TgStations[i].station_id = sid]

RepairHourBase(ts, sid, h, spans) ==
  IF RatPos(_ct_eff_for_station(ts, StationOf(sid))) /\ _hour_working_seconds(h, spans) > 0
  THEN FloorDivRat(_hour_working_seconds(h, spans), _ct_eff_for_station(ts, StationOf(sid)))
  ELSE 0

RepairShiftBase(ts, sid, d, spans) ==
  IF _working_ms(d * DayLen + ShiftStartOff, d * DayLen + ShiftEndOff, spans) > 0
  THEN FloorDivRat(_working_ms(d * DayLen + ShiftStartOff, d * DayLen + ShiftEndOff, spans)
                     * SecPerUnit,
                   _ct_eff_for_station(ts, StationOf(sid)))
  ELSE 0

(* Lines 494-599.                                                          *)
_repair_missing_bases(store, ts, t, spans) ==
  LET hrs == {k \in getHoursMissingBase(store, t) : RepairHourBase(ts, k[1], k[2], spans) > 0}
      shs == {k \in getShiftsMissingBase(store, t) :
                RatPos(_ct_eff_for_station(ts, StationOf(k[1])))}
  IN  [k \in DOMAIN store \cup {<< "hour", x[1], x[2] >> : x \in hrs}
                          \cup {<< "shift", x[1], x[2] >> : x \in shs} |->
         IF k \in DOMAIN store THEN store[k]
         ELSE IF k[1] = "hour" THEN RepairHourBase(ts, k[2], k[3], spans)
         ELSE RepairShiftBase(ts, k[2], k[3], spans)]


(* ---- the tick ---- *)
MaxTgTime == 4
MaxPartChanges == 2
MaxTgFails == 1
MaxHooks == 1

TgAcc(ts) ==
  [ts |-> ts, writes |-> <<>>, hourly |-> <<>>, shift |-> <<>>, emit |-> <<>>,
   failed |-> FALSE]

TgMerge(acc, sid, c) ==
  [ts |-> [acc.ts EXCEPT ![sid] = c.s], writes |-> acc.writes \o c.writes,
   hourly |-> acc.hourly \o c.hourly, shift |-> acc.shift \o c.shift,
   emit |-> acc.emit \o c.emit, failed |-> acc.failed]

(* Lines 684-912: the station loop.  The read of the live parts of        *)
(* station fail raises; with abort the exception ends the loop (the code), *)
(* without it the station alone is skipped.                                *)
RECURSIVE TgPass(_, _, _, _, _, _, _, _)
TgPass(sts, acc, fail, abort, part, h, t, spans) ==
  IF sts = <<>> THEN acc
  ELSE IF sts[1].station_id = fail
       THEN IF abort THEN [acc EXCEPT !.failed = TRUE]
            ELSE TgPass(Tail(sts), acc, fail, abort, part, h, t, spans)
       ELSE TgPass(Tail(sts),
                   TgMerge(acc, sts[1].station_id,
                           TgStation(sts[1], acc.ts[sts[1].station_id], part, h, t, spans)),
                   fail, abort, part, h, t, spans)

(* Lines 622-678: the states after init, hour rollover and increment       *)
(* detection.                                                              *)
TgPrepare(ts, val, t) ==
  [sid \in TgStationIds |->
     TgDetectIncrement(TgInitOrRoll(ts, sid, _floor_hour_utc(t)), sid, val, t)]

(* Lines 914-949: the upserts, the repair when it is due, and the upserts *)
(* once more.                                                              *)
TgPersist(store, acc, repair_due, t, spans) ==
  IF repair_due
  THEN upsertTargetsBatches(
         _repair_missing_bases(upsertTargetsBatches(store, acc.hourly, acc.shift),
                               acc.ts, t, spans),
         acc.hourly, acc.shift)
  ELSE upsertTargetsBatches(upsertTargetsBatches(store, acc.hourly, acc.shift),
                            acc.hourly, acc.shift)

(* History: the value last flushed for each (station, hour) by the hourly *)
(* step, and what the step did in this tick.                               *)
LastEmitted(last, sid, hour) ==
  IF << sid, hour >> \in DOMAIN last THEN last[<< sid, hour >>] ELSE None

RECURSIVE NoteEmits(_, _)
NoteEmits(last, recs) ==
  IF recs = <<>> THEN last
  ELSE NoteEmits(IF recs[1].emitted
                 THEN Upsert(last, << recs[1].station_id, recs[1].hour >>, recs[1].value)
                 ELSE last,
                 Tail(recs))

EmitRecs(last, acc) ==
  [i \in DOMAIN acc.emit |->
     [station_id |-> acc.emit[i].station_id, hour |-> acc.emit[i].hour,
      ct_pos |-> acc.emit[i].ct_pos, value |-> acc.emit[i].value,
      emitted |-> acc.emit[i].emitted /\ ~acc.failed,
      prev |-> LastEmitted(last, acc.emit[i].station_id, acc.emit[i].hour)]]

TgCommit(fail, acc, skipped, spans) ==
  /\ _tstate' = acc.ts
  /\ ct_store' = ct_store \o acc.writes
  /\ tgt_store' = IF acc.failed THEN tgt_store
                  ELSE TgPersist(tgt_store, acc,
                                 tg_now - _repair_last_run_ms >= _REPAIR_PERIOD_SEC,
                                 tg_now, spans)
  /\ _repair_last_run_ms' =
       IF ~acc.failed /\ tg_now - _repair_last_run_ms >= _REPAIR_PERIOD_SEC
       THEN tg_now ELSE _repair_last_run_ms
  /\ tg_rows' = [hourly |-> IF acc.failed THEN <<>> ELSE acc.hourly,
                 shift |-> IF acc.failed THEN <<>> ELSE acc.shift,
                 others |-> skipped.hourly \o skipped.shift]
  /\ tg_fail' = fail
  /\ tg_emit' = [last |-> NoteEmits(tg_emit.last, EmitRecs(tg_emit.last, acc)),
                 recs |-> EmitRecs(tg_emit.last, acc)]
  /\ tg_events' = IF fail = None THEN tg_events
                  ELSE [tg_events EXCEPT !.fails = tg_events.fails + 1]
  /\ tg_ticked' = TRUE

TargetsInit ==
  /\ RollupIdle
  /\ PureIdleBut("targets")
  /\ tg_now = 0 /\ tg_ticked = FALSE
  /\ tg_counter = InitCount
  /\ tg_hist = << [ts |-> 0 - 1, v |-> InitCount] >>
  /\ tg_part = "A"
  /\ _tstate = <<>>
  /\ ct_store = <<>>
  /\ tgt_store = <<>>
  /\ _repair_last_run_ms = 0 - _REPAIR_PERIOD_SEC
  /\ tg_rows = [hourly |-> <<>>, shift |-> <<>>, others |-> <<>>]
  /\ tg_fail = None
  /\ tg_events = [parts |-> 0, fails |-> 0, hooks |-> 0]
  /\ tg_emit = [last |-> <<>>, recs |-> <<>>]

TgFrame == UNCHANGED << rvars, delta_call, accum_run, ct_call, scan_call, ovars, fn_call, bvars, cvars >>

(* The timer fires at every instant; what happens at an instant happens   *)
(* before the instant's tick.                                              *)
TgAdvance ==
  /\ tg_ticked
  /\ tg_now < MaxTgTime
  /\ tg_now' = tg_now + 1
  /\ tg_ticked' = FALSE
  /\ UNCHANGED << tg_counter, tg_hist, tg_part, _tstate, ct_store, tgt_store,
                  _repair_last_run_ms, tg_rows, tg_fail, tg_events, tg_emit >>
  /\ TgFrame

TgCounterChange ==
  /\ ~tg_ticked
  /\ tg_hist[Len(tg_hist)].ts < tg_now
  /\ Len(tg_hist) < MaxSamples + 1
  /\ \E v \in NextVals(tg_counter) :
       /\ tg_counter' = v
       /\ tg_hist' = Append(tg_hist, [ts |-> tg_now, v |-> v])
  /\ UNCHANGED << tg_now, tg_ticked, tg_part, _tstate, ct_store, tgt_store,
                  _repair_last_run_ms, tg_rows, tg_fail, tg_events, tg_emit >>
  /\ TgFrame

PartChange ==
  /\ ~tg_ticked
  /\ tg_events.parts < MaxPartChanges
  /\ \E p \in PartNames \ {tg_part} : tg_part' = p
  /\ tg_events' = [tg_events EXCEPT !.parts = tg_events.parts + 1]
  /\ UNCHANGED << tg_now, tg_ticked, tg_counter, tg_hist, _tstate, ct_store, tgt_store,
                  _repair_last_run_ms, tg_rows, tg_fail, tg_emit >>
  /\ TgFrame

(* Lines 205-236, called for station 1 after a configuration change.       *)
on_config_changed ==
  /\ ~tg_ticked
  /\ tg_events.hooks < MaxHooks
  /\ _tstate' = IF 1 \in DOMAIN _tstate
                THEN [_tstate EXCEPT ![1] =
                        [_tstate[1] EXCEPT !.last_parts_key = NoPartsKey,
                                           !.stable_ticks = DEBOUNCE_TICKS,
                                           !.ct_eff = Rat0,
                                           !.seg_opened = FALSE,
                                           !.pending_seg = NoPending,
                                           !.overcycle_multiplier = NoRat,
                                           !.force_open_now = TRUE]]
                ELSE _tstate
  /\ tg_events' = [tg_events EXCEPT !.hooks = tg_events.hooks + 1]
  /\ UNCHANGED << tg_now, tg_ticked, tg_counter, tg_hist, tg_part, ct_store, tgt_store,
                  _repair_last_run_ms, tg_rows, tg_fail, tg_emit >>
  /\ TgFrame

run_targets ==
  /\ ~tg_ticked
  /\ \E fail \in {None} \cup TgStationIds :
       /\ (fail # None) => tg_events.fails < MaxTgFails
       /\ TgCommit(fail,
                   TgPass(TgStations, TgAcc(TgPrepare(_tstate, tg_counter, tg_now)), fail,
                          TRUE, tg_part, tg_hist, tg_now, _load_breaks_if_needed(tg_now)),
                   TgPass(TgStations, TgAcc(TgPrepare(_tstate, tg_counter, tg_now)), fail,
                          FALSE, tg_part, tg_hist, tg_now, _load_breaks_if_needed(tg_now)),
                   _load_breaks_if_needed(tg_now))
  /\ UNCHANGED << tg_now, tg_counter, tg_hist, tg_part >>
  /\ TgFrame

TargetsNext ==
  \/ TgAdvance
  \/ TgCounterChange
  \/ PartChange
  \/ on_config_changed
  \/ run_targets

SpecTargets == TargetsInit /\ [][TargetsNext]_vars


(* C11: the CT segments written for a station by successive ticks have    *)
(* strictly increasing effective_from_utc, in the order they were written. *)
C11_SegmentsStrictlyIncreasing ==
  \A i, j \in DOMAIN ct_store :
    (i < j /\ ct_store[i].station_id = ct_store[j].station_id)
      => ct_store[i].effective_from_utc < ct_store[j].effective_from_utc


(* ======================= properties: overcycle anchors ======================= *)
(* The last as_of the store holds for the shift of a delta row before the *)
(* tick, else the start of that shift.                                     *)
LastAsofFor(cum, r) ==
  IF CumRowsOf(cum, r.day) = {} THEN r.as_of - r.slot_duration_min
  ELSE SetMax({cum[k].as_of : k \in CumRowsOf(cum, r.day)})

StationBatches(out) == {i \in DOMAIN out : out[i].kind = "station"}

MaxAcc == 3

FnFrame == UNCHANGED << rvars, delta_call, accum_run, ct_call, scan_call, ovars, tvars, bvars, cvars >>

(* (over_sec_sum_shift, over_count_shift) of an accumulator row.           *)
AccVals == {<< 10, 1 >>, << 10, 2 >>, << 20, 1 >>}

(* Six stations, more than the leaderboard holds, returned in descending  *)
(* station order.                                                          *)
SixRows ==
  [i \in 1..(_MAX_TOP + 1) |->
     [sid |-> _MAX_TOP + 2 - i, sum_over |-> IF i <= 2 THEN 10 ELSE 10 * i, sum_cnt |-> 1]]

(* The rows getShiftAccumForLine may return: one row per station, in any   *)
(* order.                                                                  *)
TopInit ==
  /\ RollupIdle
  /\ PureIdleBut("fn")
  /\ \/ \E n \in 0..MaxAcc :
          \E order \in [1..n -> 1..MaxAcc] : \E val \in [1..n -> AccVals] :
            /\ \A i, j \in 1..n : (i # j) => order[i] # order[j]
            /\ fn_call = [acc |-> [i \in 1..n |-> [sid |-> order[i], sum_over |-> val[i][1],
                                                   sum_cnt |-> val[i][2]]],
                          done |-> FALSE, result |-> <<>>]
     \/ fn_call = [acc |-> SixRows, done |-> FALSE, result |-> <<>>]

(* Lines 565 and 681: top_tim.                                             *)
call_top_times ==
  /\ ~fn_call.done
  /\ fn_call' = [fn_call EXCEPT !.done = TRUE,
                                !.result = TopN(SortDesc(ByTime(fn_call.acc)))]
  /\ FnFrame

TopNext == call_top_times

SpecTop == TopInit /\ [][TopNext]_vars

(* C13: the TopOvercycleTimes list has at most 5 entries, ordered by       *)
(* sum_over descending, then cnt descending, then station_id ascending,    *)
(* whatever the order of the accumulator rows.                             *)
C13_TopOrderWithTieBreak ==
  fn_call.done =>
    /\ Len(fn_call.result) <= _MAX_TOP
    /\ \A i, j \in DOMAIN fn_call.result :
         (i < j) =>
           \/ KeyLess(fn_call.result[j].key, fn_call.result[i].key)
           \/ /\ fn_call.result[j].key = fn_call.result[i].key
              /\ fn_call.result[i].sid < fn_call.result[j].sid


(* ======================= production publisher ======================= *)
MaxPubFails == 1

(* The rollup rows of the store: two hours and a shift of one station.    *)
PubRowIds == 1..3

PubKind(id) == IF id = 3 THEN "shift" ELSE "hour"

(* getHourlyRowsToPublish / getEndedShiftRowsToPublish: the open hours and *)
(* the closed rows not yet marked published; the ended shifts not yet      *)
(* marked published.                                                       *)
getRowsToPublish(store) ==
  {id \in PubRowIds :
     /\ store[id].is_published = 0
     /\ PubKind(id) = "shift" => store[id].is_closed = 1}

(* Lines 248-255: the publish; an exception of the broker client is        *)
(* logged and swallowed, so the caller sees no difference.                 *)
_publish(broker, id, row, accepted) ==
  IF accepted THEN broker \cup {[id |-> id, is_closed |-> row.is_closed]} ELSE broker

(* Lines 384-392 and 466-475: after the publish a closed, unpublished row *)
(* is marked published.                                                    *)
MarkPublished(row) ==
  IF row.is_closed = 1 /\ row.is_published = 0 THEN [row EXCEPT !.is_published = 1]
  ELSE row

PublisherInit ==
  /\ RollupIdle
  /\ PureIdleBut("publisher")
  /\ pub_store = [id \in PubRowIds |-> [is_closed |-> 0, is_published |-> 0]]
  /\ pub_broker = {}
  /\ pub_out = [fails |-> 0, sent |-> {}]

PubFrame == UNCHANGED << rvars, delta_call, accum_run, ct_call, scan_call, ovars, fn_call, tvars, cvars >>

(* The rollup engine closes an hour or a shift.                            *)
CloseRow ==
  /\ \E id \in PubRowIds :
       /\ pub_store[id].is_closed = 0
       /\ pub_store' = [pub_store EXCEPT ![id].is_closed = 1]
  /\ UNCHANGED << pub_broker, pub_out >>
  /\ PubFrame

(* Lines 520-548: one tick of the publisher; the broker refuses the        *)
(* publish of row bad.                                                     *)
publish_pending ==
  /\ \E bad \in {None} \cup getRowsToPublish(pub_store) :
       /\ (bad # None) => pub_out.fails < MaxPubFails
       /\ pub_broker' = UNION {_publish(pub_broker, id, pub_store[id], id # bad) :
                                 id \in getRowsToPublish(pub_store)} \cup pub_broker
       /\ pub_store' = [id \in PubRowIds |->
                          IF id \in getRowsToPublish(pub_store)
                          THEN MarkPublished(pub_store[id]) ELSE pub_store[id]]
       /\ pub_out' = [fails |-> IF bad = None THEN pub_out.fails ELSE pub_out.fails + 1,
                      sent |-> getRowsToPublish(pub_store)]
  /\ PubFrame

PublisherNext ==
  \/ CloseRow
  \/ publish_pending

SpecPublisher == PublisherInit /\ [][PublisherNext]_vars

(* C14: a closed row is marked published only after the broker accepted   *)
(* a publish of it.                                                        *)
C14_PublishedOnlyWhenAccepted ==
  \A id \in PubRowIds :
    (pub_store[id].is_published = 1) => [id |-> id, is_closed |-> 1] \in pub_broker


(* ======================= the effective CT, called on its own ======================= *)
MaxFixtures == 3

(* Per-fixture cycle times in seconds, and parallelism factors in tenths  *)
(* (below 0, inside and above 1, and the argument left out).               *)
FixtureCTs == {30, 40, 50}

LamTenths == {0 - 5, 0, 3, 5, 10, 15, None}

CtEffInit ==
  /\ RollupIdle
  /\ PureIdleBut("fn")
  /\ \E cts \in SeqsUpTo(FixtureCTs, MaxFixtures) : \E lam \in LamTenths :
       fn_call = [ct_list |-> cts, parallelism_factor |-> lam, done |-> FALSE,
                  result |-> Rat0]

call_ct_eff_from_cts ==
  /\ ~fn_call.done
  /\ fn_call' = [fn_call EXCEPT
                   !.done = TRUE,
                   !.result = _ct_eff_from_cts(fn_call.ct_list, Len(fn_call.ct_list),
                                               fn_call.parallelism_factor)]
  /\ FnFrame

CtEffNext == call_ct_eff_from_cts

SpecCtEff == CtEffInit /\ [][CtEffNext]_vars

(* C15: for k positive cycle times and a factor lambda clamped to [0,1]    *)
(* the effective CT is 0 for k = 0, c_1 for k = 1 and                      *)
(* (1-lambda)*mean(c) + lambda*max(c)/k for k >= 2, that is                *)
(* ((10-L)*sum(c) + L*max(c)) / (10*k) with L the clamped factor in tenths. *)
C15_EffectiveCtBlend ==
  (fn_call.done /\ fn_call.parallelism_factor # None) =>
    LET c == fn_call.ct_list
        k == Len(c)
        L == IF fn_call.parallelism_factor < 0 THEN 0
             ELSE IF fn_call.parallelism_factor > 10 THEN 10
             ELSE fn_call.parallelism_factor
    IN  /\ fn_call.result.d > 0
        /\ (k = 0) => fn_call.result.n = 0
        /\ (k = 1) => fn_call.result.n = c[1] * fn_call.result.d
        /\ (k >= 2) => fn_call.result.n * 10 * k
                         = fn_call.result.d * ((10 - L) * SeqSum(c) + L * SeqMax(c))

(* The blend of the example: [30, 50] with lambda 0.5 gives 32.5.          *)
C15_Witness ==
  /\ fn_call.done
  /\ fn_call.ct_list = << 30, 50 >>
  /\ fn_call.parallelism_factor = 5
  /\ fn_call.result = [n |-> 65, d |-> 2]


(* ======================= properties: hourly base target ======================= *)
(* C16: as long as every tick ran to its end, for a critical station with *)
(* ct_eff > 0 the hourly base is floor(working seconds of the hour /       *)
(* ct_eff), and a row for (station, hour) is emitted exactly when that     *)
(* value differs from the value last emitted for that hour.                *)
C16_HourlyBaseEmittedOnChange ==
  (tg_ticked /\ tg_events.fails = 0) =>
    \A i \in DOMAIN tg_emit.recs :
      LET r == tg_emit.recs[i]
          ct == _tstate[r.station_id].ct_eff
      IN  r.ct_pos =>
            /\ r.value = (_hour_working_seconds(r.hour, _load_breaks_if_needed(tg_now)) * ct.d)
                           \div ct.n
            /\ r.emitted <=> (r.value # r.prev)


(* ======================= the working time, called on its own ======================= *)
MaxBreaks == 2
MaxWork == 4

(* The active break rows of a line, each with start before end.            *)
BreakRows == {[s |-> x, e |-> y] : x \in 0..MaxWork, y \in 0..MaxWork} 

ValidBreakRows == {r \in BreakRows : r.s < r.e}

WorkInit ==
  /\ RollupIdle
  /\ PureIdleBut("fn")
  /\ \E rows \in SeqsUpTo(ValidBreakRows, MaxBreaks) :
       \E x \in 0..MaxWork : \E y \in x..MaxWork :
         fn_call = [start_ms |-> x, end_ms |-> y, rows |-> rows, done |-> FALSE, result |-> 0]

(* _working_ms (lines 325-334) on the spans _load_breaks_if_needed cached  *)
(* from the rows.                                                          *)
call_working_ms ==
  /\ ~fn_call.done
  /\ fn_call' = [fn_call EXCEPT
                   !.done = TRUE,
                   !.result = _working_ms(fn_call.start_ms, fn_call.end_ms,
                                          MergeSpans(fn_call.rows))]
  /\ FnFrame

WorkNext == call_working_ms

SpecWork == WorkInit /\ [][WorkNext]_vars

DisjointContained(rows, x, y) ==
  /\ \A i \in DOMAIN rows : x <= rows[i].s /\ rows[i].e <= y
  /\ \A i, j \in DOMAIN rows :
       (i # j) => (rows[i].e <= rows[j].s \/ rows[j].e <= rows[i].s)

(* C17: for a window [a,b), when the breaks are pairwise disjoint and      *)
(* inside the window the working time plus the summed length of the breaks *)
(* is b - a; for any breaks the working time is within 0..(b - a).         *)
C17_WorkingTimeComplement ==
  fn_call.done =>
    /\ 0 <= fn_call.result /\ fn_call.result <= fn_call.end_ms - fn_call.start_ms
    /\ DisjointContained(fn_call.rows, fn_call.start_ms, fn_call.end_ms) =>
         fn_call.result
           + SeqSum([i \in DOMAIN fn_call.rows |-> fn_call.rows[i].e - fn_call.rows[i].s])
           = fn_call.end_ms - fn_call.start_ms

(* Two disjoint breaks inside the window, and working time left over.      *)
C17_Witness ==
  /\ fn_call.done
  /\ Len(fn_call.rows) = 2
  /\ DisjointContained(fn_call.rows, fn_call.start_ms, fn_call.end_ms)
  /\ fn_call.result > 0
  /\ fn_call.result < fn_call.end_ms - fn_call.start_ms


(* ======================= the live target, called on its own ======================= *)
MaxLiveBreaks == 1

(* Whole seconds of working time in [a, b).                                *)
WorkSec(a, b, spans) == _working_ms(a, b, spans) * SecPerUnit

MinOf(x, y) == IF x < y THEN x ELSE y

(* A plausible slip: the live target of a closed hour is computed like     *)
(* that of an open one.                                                    *)
live_target_closed_too(tgt_base, is_closed, hour_ms, t, spans) ==
  IF tgt_base <= 0 THEN 0
  ELSE IF WorkSec(hour_ms, hour_ms + HourLen, spans) <= 0 THEN 0
  ELSE (tgt_base * WorkSec(hour_ms, MinOf(t, hour_ms + HourLen), spans))
         \div WorkSec(hour_ms, hour_ms + HourLen, spans)

(* ProductionPublisher lines 345-365: the break-aware LiveTarget of an     *)
(* hourly row at time t; the fraction elapsed / total is within [0, 1]     *)
(* because now_cap is within the hour.                                     *)
LiveTarget(tgt_base, is_closed, hour_ms, t, spans) ==
  IF is_closed = 1 \/ tgt_base <= 0 THEN 0
  ELSE IF WorkSec(hour_ms, hour_ms + HourLen, spans) <= 0 THEN 0
  ELSE (tgt_base * WorkSec(hour_ms, MinOf(t, hour_ms + HourLen), spans))
         \div WorkSec(hour_ms, hour_ms + HourLen, spans)

(* target_parts_base of the row, as the targets engine writes it.          *)
BaseVals == {0, 45, 90}

LiveInit ==
  /\ RollupIdle
  /\ PureIdleBut("fn")
  /\ \E rows \in SeqsUpTo(ValidBreakRows, MaxLiveBreaks) :
       \E base \in BaseVals : \E closed \in {0, 1} : \E t \in 0..(HourLen + 1) :
         fn_call = [target_parts_base |-> base, is_closed |-> closed, hour_ms |-> 0,
                    now_ms |-> t, spans |-> MergeSpans(rows), done |-> FALSE,
                    HourlyTarget |-> 0, LiveTarget |-> 0]

(* Lines 341-376 of publish_hourly_rows: the payload of one row.           *)
call_hourly_payload ==
  /\ ~fn_call.done
  /\ fn_call' = [fn_call EXCEPT
                   !.done = TRUE,
                   !.HourlyTarget = fn_call.target_parts_base,
                   !.LiveTarget = LiveTarget(fn_call.target_parts_base, fn_call.is_closed,
                                             fn_call.hour_ms, fn_call.now_ms, fn_call.spans)]
  /\ FnFrame

LiveNext == call_hourly_payload

SpecLive == LiveInit /\ [][LiveNext]_vars

ElapsedWork == WorkSec(fn_call.hour_ms, MinOf(fn_call.now_ms, fn_call.hour_ms + HourLen),
                       fn_call.spans)

TotalWork == WorkSec(fn_call.hour_ms, fn_call.hour_ms + HourLen, fn_call.spans)

MaxPayload == 2

(* The rows the rollup engine batches for station 1 (lines 382-393), by    *)
(* kind.                                                                   *)
PayloadRows(kind) ==
  IF kind = "hourly"
  THEN {HourRow(1, 1, hr, tot, 50, 50 + tot, closed, "tick") :
          hr \in {0, HourLen}, tot \in {0, 5}, closed \in {0, 1}}
  ELSE IF kind = "shift"
  THEN {ShiftRow(1, 1, day, tot, 50, 50 + tot, closed, "tick") :
          day \in {0, 1}, tot \in {0, 5}, closed \in {0, 1}}
  ELSE IF kind = "weekly"
  THEN {WeekRow(1, wk, tot, closed) : wk \in {0, 1}, tot \in {0, 5}, closed \in {0, 1}}
  ELSE {}

(* The natural identity of a rollup row.                                   *)
RowKey(kind, r) ==
  IF kind = "hourly" THEN << r.station_id, r.hour_start_utc >>
  ELSE IF kind = "shift" THEN << r.station_id, r.shift_id, r.shift_local_date >>
  ELSE << r.station_id, r.week_start_local >>

(* upsertHourlyBatch, upsertShiftBatch, upsertWeeklyBatch: each row        *)
(* replaces the row of its key.                                            *)
RECURSIVE upsertRollupBatch(_, _, _)
upsertRollupBatch(store, kind, rows) ==
  IF rows = <<>> THEN store
  ELSE upsertRollupBatch(Upsert(store, RowKey(kind, rows[1]), rows[1]), kind, Tail(rows))

(* The delta batches of the overcycle engine (lines 427-447): one row per  *)
(* station, all with the batch's as_of.                                    *)
DeltaBatches ==
  {[i \in 1..n |-> [station_id |-> i, day |-> 0, as_of |-> b, inc_over_cnt |-> cnt[i],
                    inc_over_sec |-> 10 * cnt[i],
                    inc_max_over_sec |-> IF cnt[i] > 0 THEN 10 ELSE 0,
                    slot_duration_min |-> b - ShiftStartOff, is_final |-> 0]] :
     n \in 0..MaxPayload, b \in {ShiftStartOff + TickPeriod, ShiftStartOff + 2 * TickPeriod},
     cnt \in [1..MaxPayload -> {0, 1}]}

ApplyPayload(kind, store, payload) ==
  IF kind = "station" THEN upsertSlotStationBatch(store, payload)
  ELSE upsertRollupBatch(store, kind, payload)

(* A store that already holds what an earlier batch left, and a batch.     *)
UpsertInit ==
  /\ RollupIdle
  /\ PureIdleBut("fn")
  /\ \E kind \in {"hourly", "shift", "weekly", "station"} :
       \E earlier, payload \in (IF kind = "station" THEN DeltaBatches
                                ELSE SeqsUpTo(PayloadRows(kind), MaxPayload)) :
         /\ Len(earlier) <= 1
         /\ fn_call = [kind |-> kind, store |-> ApplyPayload(kind, <<>>, earlier),
                       payload |-> payload, applied |-> 0,
                       once |-> <<>>, now_store |-> ApplyPayload(kind, <<>>, earlier)]

(* The store receives the payload; the first time its state is kept aside. *)
apply_payload ==
  /\ fn_call.applied < 2
  /\ fn_call' = [fn_call EXCEPT
                   !.applied = fn_call.applied + 1,
                   !.now_store = ApplyPayload(fn_call.kind, fn_call.now_store, fn_call.payload),
                   !.once = IF fn_call.applied = 0
                            THEN ApplyPayload(fn_call.kind, fn_call.now_store, fn_call.payload)
                            ELSE fn_call.once]
  /\ FnFrame

UpsertNext == apply_payload

SpecUpsert == UpsertInit /\ [][UpsertNext]_vars

C20_FailureSkipsOnlyThatStation ==
  (tg_ticked /\ tg_fail # None) => (tg_rows.hourly \o tg_rows.shift) = tg_rows.others


(* ======================= the station loop on a line with back-to-back shifts ======================= *)
(* The station loop of run_rollups (lines 456-598), tick after tick, with  *)
(* a schedule in which shift 2 starts at the instant shift 1 ends and       *)
(* shift 1 of the next day starts when shift 2 ends.  The gateway starts   *)
(* at any tick instant.                                                    *)
MaxLoopTime == 12

TwoShifts(day) ==
  IF day < 0 THEN <<>>
  ELSE << [line_id |-> 1, shift_id |-> 1,
           start_time |-> day * DayLen, end_time |-> day * DayLen + HourLen],
          [line_id |-> 1, shift_id |-> 2,
           start_time |-> day * DayLen + HourLen, end_time |-> (day + 1) * DayLen] >>

LoadTwoShiftWindows(t) ==
  LET today == TwoShifts(DayOf(t))
      yday  == TwoShifts(DayOf(t) - 1)
  IN  [shiftsToday |-> today, shiftsYday |-> yday,
       pastShiftsByLine |-> SortByEnd(EndedWindows(yday \o today, t))]

LoopInit ==
  /\ RollupIdle
  /\ PureIdleBut("fn")
  /\ \E t0 \in {t \in 0..MaxLoopTime : IsTickInstant(t)} :
       fn_call = [fn |-> "station_loop", t |-> t0 - TickPeriod, live |-> InitCount,
                  states |-> <<>>, late |-> <<>>, hour |-> <<>>, shift |-> <<>>,
                  week |-> <<>>]

station_loop ==
  /\ fn_call.t + TickPeriod <= MaxLoopTime
  /\ \E live \in {fn_call.live} \cup NextVals(fn_call.live) : \E good \in BOOLEAN :
       LET t == fn_call.t + TickPeriod
           m == LoadTwoShiftWindows(t)
           tk == [i \in DOMAIN Stations |->
                    StationPass(Stations[i], fn_call.states, m, t, live, good)]
       IN  fn_call' = [fn |-> "station_loop", t |-> t, live |-> live,
                       states |-> [sid \in StationIds |->
                                     tk[CHOOSE i \in DOMAIN Stations :
                                          Stations[i].station_id = sid].s],
                       late |-> Concat([i \in DOMAIN tk |-> tk[i].late]),
                       hour |-> Concat([i \in DOMAIN tk |-> tk[i].hour]),
                       shift |-> Concat([i \in DOMAIN tk |-> tk[i].shift]),
                       week |-> Concat([i \in DOMAIN tk |-> tk[i].week])]
  /\ FnFrame

LoopNext == station_loop

SpecLoop == LoopInit /\ [][LoopNext]_vars

(* In a batch, every closed row of a station comes before every open row   *)
(* of that station.                                                        *)
ClosedBeforeOpen(rows) ==
  \A i \in DOMAIN rows : \A j \in DOMAIN rows :
    (/\ rows[i].station_id = rows[j].station_id
     /\ rows[i].is_closed = 1
     /\ rows[j].is_closed = 0) => i < j

(* C21: in the batches of one tick, for every station the closed row of    *)
(* the hour, shift or week that ends comes before the open row of the      *)
(* window that replaces it.                                                *)
C21_ClosedRowsBeforeOpenRows ==
  /\ ClosedBeforeOpen(fn_call.hour)
  /\ ClosedBeforeOpen(fn_call.late \o fn_call.shift)
  /\ ClosedBeforeOpen(fn_call.week)

(* A tick that closes shift 2 and the week and opens shift 1 and the next  *)
(* week, for the same station.                                             *)
C21_Witness ==
  /\ \E i \in DOMAIN fn_call.shift : \E j \in DOMAIN fn_call.shift :
       /\ fn_call.shift[i].station_id = fn_call.shift[j].station_id
       /\ fn_call.shift[i].src = "transition"
       /\ fn_call.shift[j].is_closed = 0
       /\ fn_call.shift[i].shift_id # fn_call.shift[j].shift_id
  /\ \E i \in DOMAIN fn_call.week : \E j \in DOMAIN fn_call.week :
       /\ fn_call.week[i].station_id = fn_call.week[j].station_id
       /\ fn_call.week[i].is_closed = 1
       /\ fn_call.week[j].is_closed = 0


(* ======================= backfill_day_dense, called on its own ======================= *)
(* Lines 609-760 with write_zero_on_no_data=True: the payloads in the      *)
(* order of the upsert calls.  A payload is flushed when it has reached    *)
(* chunk rows (lines 675-683, 736-744) and the remainder at the end.       *)
MaxBackfillRuns == 2

ChunkVals == {1, 3, 500}

BackfillSeries ==
  { <<>>,
    << [ts |-> 0 - 1, v |-> 50] >>,
    << [ts |-> 1, v |-> 50], [ts |-> 3, v |-> 55] >>,
    << [ts |-> 0 - 1, v |-> 50], [ts |-> 5, v |-> 55] >>,
    << [ts |-> 1, v |-> 50], [ts |-> 3, v |-> 0], [ts |-> 5, v |-> 7] >> }

RECURSIVE HourChunks(_, _, _, _)
HourChunks(cur, h_end, pending, chunk) ==
  IF cur < h_end
  THEN LET rows == pending \o [i \in DOMAIN Stations |-> BackfillHourRow(Stations[i], cur)]
       IN  IF Len(rows) >= chunk
           THEN << rows >> \o HourChunks(cur + HourLen, h_end, <<>>, chunk)
           ELSE HourChunks(cur + HourLen, h_end, rows, chunk)
  ELSE IF pending # <<>> THEN << pending >> ELSE <<>>

RECURSIVE ShiftChunks(_, _, _)
ShiftChunks(shifts, pending, chunk) ==
  IF shifts = <<>> THEN (IF pending # <<>> THEN << pending >> ELSE <<>>)
  ELSE LET r == shifts[1]
           on_line == SelectSeq(Stations, LAMBDA st : st.line_id = r.line_id)
           rows == pending \o (IF r.end_time <= r.start_time THEN <<>>
                               ELSE [i \in DOMAIN on_line |->
                                       BackfillShiftRow(on_line[i], r)])
       IN  IF Len(rows) >= chunk
           THEN << rows >> \o ShiftChunks(Tail(shifts), <<>>, chunk)
           ELSE ShiftChunks(Tail(shifts), rows, chunk)

(* The upsert calls that do not raise reach the store.                     *)
RECURSIVE ApplyChunks(_, _, _, _, _)
ApplyChunks(store, kind, chunks, i, ok) ==
  IF i > Len(chunks) THEN store
  ELSE CHOOSE after \in
         { ApplyChunks(st, kind, chunks, i + 1, ok) :
             st \in {IF i \in ok THEN upsertRollupBatch(store, kind, chunks[i]) ELSE store} } :
         TRUE

RowsIn(chunks, ok) ==
  SeqSum([i \in DOMAIN chunks |-> IF i \in ok THEN Len(chunks[i]) ELSE 0])

(* One call.  Its store calls are numbered in order: the hourly upserts,   *)
(* the schedule query (line 701), the shift upserts; bad is the call that  *)
(* raises, if any.  A failed upsert is logged and not counted (lines       *)
(* 676-682, 687-693, 737-743, 747-753); the schedule query is inside the   *)
(* outer try only, whose handler returns zero counts (lines 758-760).      *)
(* hc and shift_chunks are the payloads the call builds when nothing       *)
(* raises.                                                                 *)
BackfillRun(hourly, shift, hc, shift_chunks, bad) ==
  LET nH == Len(hc)
      raised == bad = nH + 1
      sc == IF raised THEN <<>> ELSE shift_chunks
      okH == {i \in DOMAIN hc : i # bad}
      okS == {i \in DOMAIN sc : nH + 1 + i # bad}
  IN  [hourly |-> ApplyChunks(hourly, "hourly", hc, 1, okH),
       shift |-> ApplyChunks(shift, "shift", sc, 1, okS),
       out_h |-> Concat(hc),
       out_sh |-> Concat(sc),
       upserted |-> << RowsIn(hc, okH), RowsIn(sc, okS) >>,
       ret |-> IF raised THEN << 0, 0 >> ELSE << RowsIn(hc, okH), RowsIn(sc, okS) >>,
       calls |-> nH + 1 + Len(sc)]

NoRun == [hourly |-> <<>>, shift |-> <<>>, out_h |-> <<>>, out_sh |-> <<>>,
          upserted |-> << 0, 0 >>, ret |-> << 0, 0 >>, calls |-> 0]

BackfillInit ==
  /\ now = 0 /\ counter = 0 /\ _state = <<>> /\ _meta = <<>>
  /\ hist \in BackfillSeries
  /\ _bootstrapped_day = 0 /\ hour_rows = <<>> /\ shift_rows = <<>>
  /\ week_rows = <<>> /\ wm_rows = <<>> /\ ticked = FALSE /\ restarts = 0
  /\ bad_reads = 0 /\ backfills = 0 /\ late_count = <<>>
  /\ closed_hour_log = {} /\ closed_shift_log = {} /\ flush_failures = <<>>
  /\ PureIdleBut("fn")
  /\ \E day \in 0..1 : \E chunk \in ChunkVals :
       fn_call = [fn |-> "backfill_day_dense", day |-> day, chunk |-> chunk, runs |-> 0,
                  failed |-> FALSE, first |-> NoRun, last |-> NoRun]

call_backfill_day_dense ==
  /\ fn_call.runs < MaxBackfillRuns
  /\ \E hc \in {HourChunks(_floor_hour_utc(fn_call.day * DayLen),
                             _floor_hour_utc((fn_call.day + 1) * DayLen), <<>>, fn_call.chunk)},
        sc \in {ShiftChunks(getShiftScheduleOnDate(fn_call.day), <<>>, fn_call.chunk)} :
     \E bad \in {None} \cup 1..(Len(hc) + 1 + Len(sc)) :
     \E run \in {BackfillRun(fn_call.last.hourly, fn_call.last.shift, hc, sc, bad)} :
           fn_call' = [fn_call EXCEPT !.runs = @ + 1,
                                      !.failed = @ \/ bad # None,
                                      !.first = IF fn_call.runs = 0 THEN run ELSE @,
                                      !.last = run]
  /\ FnFrame

BackfillNext == call_backfill_day_dense

SpecBackfill == BackfillInit /\ [][BackfillNext]_vars

(* The hours of a day and the (shift, station) pairs scheduled on it.      *)
DayHours(day) == {day * DayLen + k * HourLen : k \in 0..(HoursPerDay - 1)}

NoSampleUpTo(st, t) == ~st.tag \/ CountUpTo(hist, t) = 0

ZeroRow(r) == r.total_parts = 0 /\ r.start_count = None /\ r.end_count = None

DenseHours(rows, day) ==
  /\ Len(rows) = Cardinality(DayHours(day)) * Len(Stations)
  /\ \A hr \in DayHours(day) : \A k \in DOMAIN Stations :
       \E i \in DOMAIN rows :
         /\ rows[i].station_id = Stations[k].station_id
         /\ rows[i].hour_start_utc = hr
         /\ rows[i].is_closed = 1
         /\ NoSampleUpTo(Stations[k], hr + HourLen) => ZeroRow(rows[i])

DenseShifts(rows, day) ==
  LET sched == getShiftScheduleOnDate(day)
      pairs == {<< j, k >> \in (DOMAIN sched) \X (DOMAIN Stations) :
                  Stations[k].line_id = sched[j].line_id}
  IN  /\ Len(rows) = Cardinality(pairs)
      /\ \A pr \in pairs :
           \E i \in DOMAIN rows :
             /\ rows[i].station_id = Stations[pr[2]].station_id
             /\ rows[i].shift_id = sched[pr[1]].shift_id
             /\ rows[i].shift_local_date = DayOf(sched[pr[1]].start_time)
             /\ rows[i].is_closed = 1
             /\ NoSampleUpTo(Stations[pr[2]], sched[pr[1]].end_time) => ZeroRow(rows[i])

(* C22: a call of backfill_day_dense with write_zero_on_no_data=True emits *)
(* exactly one closed hourly row per hour of the day and station and one   *)
(* closed shift row per scheduled shift and station of its line, with      *)
(* total_parts 0 and null counts where the historian holds no sample up to *)
(* the end of the window; a second call against the same historian and     *)
(* schedule emits the same rows and leaves the store as the first call     *)
(* left it; and the counts a call returns are the numbers of rows it       *)
(* upserted.                                                               *)
C22_BackfillDenseIdempotent ==
  (fn_call.runs >= 1) =>
    /\ ~fn_call.failed =>
         /\ DenseHours(fn_call.last.out_h, fn_call.day)
         /\ DenseShifts(fn_call.last.out_sh, fn_call.day)
    /\ (fn_call.runs = 2 /\ ~fn_call.failed) =>
         /\ fn_call.last.out_h = fn_call.first.out_h
         /\ fn_call.last.out_sh = fn_call.first.out_sh
         /\ fn_call.last.hourly = fn_call.first.hourly
         /\ fn_call.last.shift = fn_call.first.shift
    /\ fn_call.last.ret = fn_call.last.upserted

(* The same without the returned counts of a call in which a store call    *)
(* raised.                                                                 *)
BackfillDenseWhenNothingRaises ==
  (fn_call.runs >= 1 /\ ~fn_call.failed) => C22_BackfillDenseIdempotent


(* ======================= properties: the station loop of the rollup engine ======================= *)
(* A step of run_rollups that reads station sid's tag with good quality    *)
(* and leaves the station in the shift and week it was in.                 *)
GoodTickSameWindows(sid) ==
  /\ ~ticked /\ ticked'
  /\ bad_reads' = bad_reads
  /\ sid \in DOMAIN _state
  /\ _state'[sid].shift_id = _state[sid].shift_id
  /\ _state'[sid].shift_date = _state[sid].shift_date
  /\ _state'[sid].week_start_local = _state[sid].week_start_local

(* C23: on every tick that reads a station's counter with good quality and *)
(* finds curr >= last_peak, shift_total and week_total each grow by        *)
(* curr - last_peak, the tick that crosses an hour boundary included (the  *)
(* ticks that change the station's shift or week set aside).               *)
C23_ShiftAndWeekTotalsFollowCounter ==
  [][(GoodTickSameWindows(1) /\ counter >= _state[1].last_peak) =>
       /\ _state'[1].shift_total = _state[1].shift_total + (counter - _state[1].last_peak)
       /\ _state'[1].week_total = _state[1].week_total + (counter - _state[1].last_peak)]_vars


(* The fields of a station's rolling state the tick works on.              *)
RollupFields(s) ==
  << s.hour_start_utc, s.hour_start_count, s.hour_total, s.last_peak, s.hour_last_flush,
     s.shift_id, s.shift_date, s.shift_start_count, s.shift_total,
     s.week_start_local, s.week_total >>

(* C24: a tick that reads a station's counter with a quality that is not   *)
(* good leaves that station's hour, shift and week state as it was.        *)
C24_BadQualityFreezesState ==
  [][(/\ ~ticked /\ ticked'
      /\ bad_reads' = bad_reads + 1
      /\ 1 \in DOMAIN _state)
     => RollupFields(_state'[1]) = RollupFields(_state[1])]_vars


(* The end of the shift window a late-reconciliation row was written for.  *)
WindowEndOf(r) ==
  LET sched == TwoShifts(r.shift_local_date)
  IN  sched[CHOOSE j \in DOMAIN sched : sched[j].shift_id = r.shift_id].end_time

(* C25: every closed row late reconciliation emits is for a shift window   *)
(* that has ended and whose end is at most the grace horizon (18 hours,    *)
(* three quarters of a day) before the tick.                               *)
C25_LateReconcileWithinGrace ==
  \A i \in DOMAIN fn_call.late :
    /\ fn_call.late[i].is_closed = 1
    /\ WindowEndOf(fn_call.late[i]) <= fn_call.t
    /\ fn_call.t - WindowEndOf(fn_call.late[i]) <= _FINAL_GRACE_MIN


(* ======================= properties: debounce and CT segments ======================= *)
(* A tick on which station sid, seen on earlier ticks with another parts   *)
(* set, is first seen with the parts set it has now.                       *)
NewPartsSetSeen(sid) ==
  /\ ~tg_ticked /\ tg_ticked'
  /\ sid \in DOMAIN _tstate
  /\ _tstate[sid].last_parts_key # NoPartsKey
  /\ _tstate'[sid].last_parts_key # _tstate[sid].last_parts_key

(* C26: on the tick that first sees a new, fully configured parts set the  *)
(* station's ct_eff stays as it was: the change waits until the set has    *)
(* been seen on DEBOUNCE_TICKS further consecutive ticks.                  *)
C26_DebounceDelaysCtChange ==
  [][(NewPartsSetSeen(1) /\ tg_part \in DOMAIN PartCTs(1))
     => _tstate'[1].ct_eff = _tstate[1].ct_eff]_vars


(* The station's state before a tick (a station not seen yet has the state *)
(* of lines 624-651) and the segments the tick writes for it.              *)
StateBefore(sid) == IF sid \in DOMAIN _tstate THEN _tstate[sid] ELSE NewTState(0)

SegsWritten(sid) ==
  SelectSeq(SubSeq(ct_store', Len(ct_store) + 1, Len(ct_store')),
            LAMBDA r : r.station_id = sid)

(* The tick that buffered the segment a written row comes from: the tick   *)
(* that buffered the pending record the station already held, if that      *)
(* record is the row's, else this tick.                                    *)
BufferedAt(sid, r) ==
  IF /\ StateBefore(sid).pending_seg # NoPending
     /\ SegRow(sid, r.effective_from_utc, StateBefore(sid).pending_seg) = r
  THEN StateBefore(sid).pending_seg.poll_ms
  ELSE tg_now

OpenedAtOnce(sid, r) == r.ct_mode = "missing-config" \/ StateBefore(sid).force_open_now

IncrementDetected(sid) ==
  /\ sid = 1
  /\ StateBefore(sid).prev_total_flat # None
  /\ tg_counter > StateBefore(sid).prev_total_flat

SegmentStep(sid) ==
  /\ \A i \in DOMAIN SegsWritten(sid) :
       LET r == SegsWritten(sid)[i]
       IN  IF OpenedAtOnce(sid, r)
           THEN /\ r.effective_from_utc = tg_now
                /\ BufferedAt(sid, r) = tg_now
           ELSE /\ _tstate'[sid].last_increment_prev # None
                /\ _tstate'[sid].last_increment_ms >= BufferedAt(sid, r)
  /\ SegsWritten(sid) # <<>> =>
       /\ _tstate'[sid].pending_seg = NoPending
       /\ _tstate'[sid].force_open_now = FALSE
  /\ _tstate'[sid].pending_seg # NoPending =>
       /\ _tstate'[sid].pending_seg.ct_mode # "missing-config"
       /\ ~_tstate'[sid].force_open_now
       /\ ~IncrementDetected(sid)

(* C27: a buffered CT segment that is not for a missing configuration, on  *)
(* a station without the force flag, is written on no tick before a        *)
(* counter increment was detected at or after the tick that buffered it    *)
(* and is written on the tick that detects one; a segment for a missing    *)
(* configuration, or on a station with the force flag, is written on the   *)
(* tick that buffers it, effective from now, and the pending record and    *)
(* the flag are then cleared.                                              *)
C27_PendingSegmentMaterialisation ==
  [][(~tg_ticked /\ tg_ticked') => \A sid \in TgStationIds : SegmentStep(sid)]_vars

(* The same for the ticks that run to their end.                           *)
SegmentStepsOfCompleteTicks ==
  [][(~tg_ticked /\ tg_ticked' /\ tg_fail' = None)
     => \A sid \in TgStationIds : SegmentStep(sid)]_vars


(* ======================= properties: missing configuration ======================= *)
PersistedBase(kind, sid, at) ==
  IF << kind, sid, at >> \in DOMAIN tgt_store THEN tgt_store[<< kind, sid, at >>] ELSE None

(* C28: after a tick that saw station 1 with a part that has no CT         *)
(* configuration, a CT segment with ct_mode missing-config is in the store *)
(* and the base targets the store holds for the station's current hour and *)
(* active shift are 0, whatever was persisted for them before.             *)
C28_MissingConfigZeroesTargets ==
  (tg_ticked /\ tg_fail = None /\ tg_part \notin DOMAIN PartCTs(1)) =>
    /\ \E i \in DOMAIN ct_store :
         ct_store[i].station_id = 1 /\ ct_store[i].ct_mode = "missing-config"
    /\ PersistedBase("hour", 1, _floor_hour_utc(tg_now)) \in {None, 0}
    /\ _tstate[1].shift_id # None =>
         PersistedBase("shift", 1, _tstate[1].shift_date) \in {None, 0}

(* ---------------------------------------------------------------------- *)
(* The tag-change publisher: _process_change handles one value change of   *)
(* a tag; status snapshots are gated per station root, node and cycle      *)
(* publishes per resolved topic.                                           *)
(* ---------------------------------------------------------------------- *)

_STATUS_COALESCE_MS == 150

_NODE_COALESCE_MS == 75

(* Granularity of the clock, in milliseconds, and how far it runs.         *)
TcStep == 75

MaxTcSteps == 5

MaxTcEvents == 4

(* The clock is epoch milliseconds: it starts far above both windows.      *)
TcStart == 4 * _STATUS_COALESCE_MS

TcEnd == TcStart + MaxTcSteps * TcStep

(* Tags that change: two under the registered station root "S", one under  *)
(* a station root with no status topic.                                    *)
TcPaths == {"S/a", "S/b", "U/c"}

_station_root_of(path) == IF path \in {"S/a", "S/b"} THEN "S" ELSE "U"

_status_by_station == {"S"}

(* Resolved topics whose member list holds the path.                       *)
_path_to_topicstrs(path) == IF path \in {"S/a", "U/c"} THEN {"T"} ELSE {}

(* dict.get(k, 0)                                                          *)
GetOrZero(d, k) == IF k \in DOMAIN d THEN d[k] ELSE 0

status_gate_open(last, nowm) == TRUE

StatusGate(last, nowm) == (nowm - last) >= _STATUS_COALESCE_MS

NodeGate(last, nowm) == ~((nowm - last) < _NODE_COALESCE_MS)

NoEvent == [initial |-> FALSE, good |-> TRUE, path |-> "", pubs |-> << 0, 0 >>,
            stamps |-> << <<>>, <<>> >>]

TcInit ==
  /\ RollupIdle
  /\ PureIdleBut("tagchange")
  /\ tc_now = TcStart
  /\ tag_val = 0
  /\ _status_last_pub_ms = <<>>
  /\ _node_last_pub_ms = <<>>
  /\ tc_out = [status |-> <<>>, node |-> <<>>, snap |-> 0, events |-> 0, last |-> NoEvent]

TcFrame == UNCHANGED << rvars, delta_call, accum_run, ct_call, scan_call, ovars, fn_call, tvars, bvars >>

TcAdvance ==
  /\ tc_now + TcStep <= TcEnd
  /\ tc_now' = tc_now + TcStep
  /\ UNCHANGED << tag_val, _status_last_pub_ms, _node_last_pub_ms, tc_out >>
  /\ TcFrame

(* One value change of a tag and its handling.  The status snapshot reads  *)
(* every leaf under the station root when it is published, so it shows     *)
(* the values of that moment; the clock is read a second time, after the   *)
(* snapshot, for the node and cycle topics.                                *)
_process_change ==
  /\ tc_out.events < MaxTcEvents
  /\ \E path \in TcPaths, initialChange \in BOOLEAN, good \in BOOLEAN, d \in {0, TcStep} :
       LET sr == _station_root_of(path)
           val == IF sr \in _status_by_station /\ ~initialChange /\ good
                  THEN tag_val + 1 ELSE tag_val
           ev == [initial |-> initialChange, good |-> good, path |-> path,
                  pubs |-> << Len(tc_out.status), Len(tc_out.node) >>,
                  stamps |-> << _status_last_pub_ms, _node_last_pub_ms >>]
       IN /\ tag_val' = val
          /\ IF initialChange \/ ~good
             THEN /\ UNCHANGED << tc_now, _status_last_pub_ms, _node_last_pub_ms >>
                  /\ tc_out' = [tc_out EXCEPT !.events = @ + 1, !.last = ev]
             ELSE LET nowm == tc_now
                      pub_status == /\ sr \in _status_by_station
                                    /\ StatusGate(GetOrZero(_status_last_pub_ms, sr), nowm)
                      nowm2 == IF pub_status THEN tc_now + d ELSE tc_now
                      pub_node == {tkey \in _path_to_topicstrs(path) :
                                     NodeGate(GetOrZero(_node_last_pub_ms, tkey), nowm2)}
                  IN /\ nowm2 <= TcEnd
                     /\ tc_now' = nowm2
                     /\ _status_last_pub_ms' =
                          IF pub_status THEN (sr :> nowm) @@ _status_last_pub_ms
                          ELSE _status_last_pub_ms
                     /\ _node_last_pub_ms' =
                          [tkey \in DOMAIN _node_last_pub_ms \cup pub_node |->
                             IF tkey \in pub_node THEN nowm2 ELSE _node_last_pub_ms[tkey]]
                     /\ tc_out' = [tc_out EXCEPT
                          !.events = @ + 1,
                          !.last = ev,
                          !.status = IF pub_status THEN Append(@, nowm) ELSE @,
                          !.snap = IF pub_status THEN val ELSE @,
                          !.node = IF pub_node # {} THEN Append(@, nowm2) ELSE @]
  /\ TcFrame

TcNext == TcAdvance \/ _process_change

SpecTagChange == TcInit /\ [][TcNext]_vars

(* The clock keeps running; nothing obliges a further tag change.          *)
SpecTagChangeLive == TcInit /\ [][TcNext]_vars /\ WF_vars(TcAdvance)

(* The last published snapshot does not show the last good change.         *)
SnapshotStale == tc_out.snap # tag_val

(* C29: after a burst of changes under a registered station root, a       *)
(* status snapshot showing the last change of the burst is eventually      *)
(* published; a change inside the coalescing window is deferred, not       *)
(* dropped.                                                                *)
C29_LastChangeEventuallyPublished == SnapshotStale ~> ~SnapshotStale

Spaced(times, window) ==
  \A i \in 1..(Len(times) - 1) : times[i + 1] - times[i] >= window

(* C30: consecutive status snapshot publishes of a station root are at    *)
(* least 150 ms apart and consecutive publishes of a topic at least 75 ms  *)
(* apart; an initial or bad-quality change publishes nothing and leaves    *)
(* the last-publish timestamps as they were.                               *)
C30_PublishSpacingAndSkippedEvents ==
  /\ Spaced(tc_out.status, _STATUS_COALESCE_MS)
  /\ Spaced(tc_out.node, _NODE_COALESCE_MS)
  /\ (tc_out.last.initial \/ ~tc_out.last.good) =>
       /\ << Len(tc_out.status), Len(tc_out.node) >> = tc_out.last.pubs
       /\ << _status_last_pub_ms, _node_last_pub_ms >> = tc_out.last.stamps

C30_Witness ==
  /\ Len(tc_out.status) >= 2
  /\ Len(tc_out.node) >= 2
  /\ tc_out.last.path = "S/a"
  /\ ~tc_out.last.good
  /\ tc_now - _status_last_pub_ms["S"] >= _STATUS_COALESCE_MS

(* ---------------------------------------------------------------------- *)
(* The node-group value: _and_tristate over the coerced member values,     *)
(* called on its own.  True, False and None are "true", "false" and        *)
(* "unknown".                                                              *)
(* ---------------------------------------------------------------------- *)

MaxTriLen == 4

TriVals == {"true", "false", "unknown"}

(* The loop of lines 369-375 and the returns of lines 376-380.             *)
RECURSIVE AndLoop(_, _, _)
AndLoop(values, saw_none, saw_true) ==
  IF values = <<>>
  THEN IF saw_none /\ ~saw_true THEN "unknown"
       ELSE IF saw_none /\ saw_true THEN "unknown"
       ELSE IF saw_true THEN "true" ELSE "unknown"
  ELSE IF values[1] = "false" THEN "false"
       ELSE AndLoop(Tail(values), saw_none \/ values[1] = "unknown",
                    saw_true \/ values[1] = "true")

RECURSIVE and_tristate_stops_at_unknown(_)
and_tristate_stops_at_unknown(values) ==
  IF values = <<>> THEN "unknown"
  ELSE IF values[1] = "true" /\ Len(values) > 1
       THEN and_tristate_stops_at_unknown(Tail(values))
       ELSE values[1]

_and_tristate(values) == AndLoop(values, FALSE, FALSE)

(* The coerced values of the members that were read: none when the batch   *)
(* read fails (lines 186-191), one per member otherwise.                   *)
TriInit ==
  /\ RollupIdle
  /\ PureIdleBut("fn")
  /\ \E values \in SeqsUpTo(TriVals, MaxTriLen) :
       fn_call = [fn |-> "_and_tristate", values |-> values, done |-> FALSE,
                  result |-> "unknown"]

call_and_tristate ==
  /\ ~fn_call.done
  /\ fn_call' = [fn_call EXCEPT !.done = TRUE, !.result = _and_tristate(fn_call.values)]
  /\ FnFrame

TriNext == call_and_tristate

SpecTristate == TriInit /\ [][TriNext]_vars

(* The stated rule: any false, else any unknown, else true.                *)
AndRule(values) ==
  IF \E i \in DOMAIN values : values[i] = "false" THEN "false"
  ELSE IF \E i \in DOMAIN values : values[i] = "unknown" THEN "unknown"
  ELSE "true"

SameMembers(v, w) ==
  /\ Len(v) = Len(w)
  /\ \A x \in TriVals :
       Cardinality({i \in DOMAIN v : v[i] = x}) = Cardinality({i \in DOMAIN w : w[i] = x})

(* C31 as stated: for every list of coerced member values the published   *)
(* value is false if any member is false, else unknown if any is unknown,  *)
(* else true.                                                              *)
C31_TristateAndAsStated ==
  fn_call.done => fn_call.result = AndRule(fn_call.values)

(* C31: for every non-empty list of coerced member values the published   *)
(* value is false if any member is false, else unknown if any is unknown,  *)
(* else true, whatever the order of the members; for the empty list it is  *)
(* unknown.                                                                *)
C31_TristateAnd ==
  fn_call.done =>
    /\ fn_call.values # <<>> => fn_call.result = AndRule(fn_call.values)
    /\ fn_call.values = <<>> => fn_call.result = "unknown"
    /\ \A w \in SeqsUpTo(TriVals, MaxTriLen) :
         SameMembers(w, fn_call.values) => _and_tristate(w) = fn_call.result

C31_Witness ==
  /\ fn_call.done
  /\ Len(fn_call.values) = 3
  /\ fn_call.values[1] = "unknown"
  /\ fn_call.values[2] = "true"
  /\ fn_call.values[3] = "false"
  /\ fn_call.result = "false"

(* ---------------------------------------------------------------------- *)
(* The daily bootstrap within run_rollups.                                 *)
(* ---------------------------------------------------------------------- *)

BootRowsOf(rows) == SelectSeq(rows, LAMBDA r : r.src = "bootstrap")

(* The hours of today that are over at t.                                  *)
ClosedHoursOfToday(t) ==
  {h \in MidnightOf(t)..(_floor_hour_utc(t) - 1) : h % HourLen = 0}

(* The tick about to run is the first of its day in this process: no tick  *)
(* has run since the start, or the previous tick was yesterday's.          *)
FirstTickOfDay == _state = <<>> \/ DayOf(now - TickPeriod) # DayOf(now)

(* C32: the bootstrap runs on the first tick of a day in a process and on *)
(* no other; on that tick it upserts one closed hourly row per station     *)
(* and hour from midnight up to, not including, the current hour, a zero   *)
(* row with null counts for a station without a tag.                       *)
C32_BootstrapOncePerDay ==
  [][(~ticked /\ ticked') =>
       LET boot == BootRowsOf(hour_rows')
       IN  IF FirstTickOfDay
           THEN /\ \A i \in DOMAIN Stations : \A h \in ClosedHoursOfToday(now) :
                     Cardinality({k \in DOMAIN boot :
                                    /\ boot[k].station_id = Stations[i].station_id
                                    /\ boot[k].hour_start_utc = h}) = 1
                /\ \A k \in DOMAIN boot :
                     /\ boot[k].is_closed = 1
                     /\ boot[k].hour_start_utc \in ClosedHoursOfToday(now)
                     /\ \A i \in DOMAIN Stations :
                          (Stations[i].station_id = boot[k].station_id /\ ~Stations[i].tag)
                            => /\ boot[k].total_parts = 0
                               /\ boot[k].start_count = None
                               /\ boot[k].end_count = None
           ELSE boot = <<>>]_vars

C32_Witness ==
  /\ ticked
  /\ restarts = 1
  /\ now % DayLen >= HourLen
  /\ Len(BootRowsOf(hour_rows)) = Len(Stations)

(* ---------------------------------------------------------------------- *)
(* The shift rows of a tick.                                               *)
(* ---------------------------------------------------------------------- *)

(* Open rows of the station for the shift among the rows.                  *)
OpenShiftRows(rows, sid, a) ==
  {k \in DOMAIN rows :
     /\ rows[k].station_id = sid
     /\ rows[k].is_closed = 0
     /\ rows[k].end_count = None
     /\ rows[k].shift_id = a.shift_id
     /\ rows[k].shift_local_date = a.shift_date}

(* The tick about to run finds another shift active than the stored one.   *)
ShiftChanges(sid, a) ==
  /\ _state # <<>>
  /\ (_state[sid].shift_id # a.shift_id \/ _state[sid].shift_date # a.shift_date)

(* What the tick does on a transition: the closed row of the stored shift  *)
(* and the seed of the new shift's total.                                  *)
TransitionStep(st, a) ==
  LET sid == st.station_id
  IN  ShiftChanges(sid, a) =>
        /\ _state[sid].shift_id # None =>
             \E k \in DOMAIN shift_rows' :
               /\ shift_rows'[k].station_id = sid
               /\ shift_rows'[k].shift_id = _state[sid].shift_id
               /\ shift_rows'[k].shift_local_date = _state[sid].shift_date
               /\ shift_rows'[k].is_closed = 1
               /\ shift_rows'[k].end_count = _state'[sid].last_peak
        /\ a.shift_id # None =>
             _state'[sid].shift_total =
               _series_positive_delta(st.tag, TagSeries(st), a.start, now)

MaxLkTime == 3

MaxLkWindows == 3

LkLines == {1, 2}

LkWindowPool ==
  {[line_id |-> l, shift_id |-> s * (MaxLkTime + 1) + e, start_time |-> s, end_time |-> e] :
     l \in LkLines, s \in 0..MaxLkTime, e \in 1..MaxLkTime}

LkValid(S) ==
  /\ Cardinality(S) <= MaxLkWindows
  /\ \A w \in S : w.start_time < w.end_time
  /\ \A v, w \in S :
       (v # w /\ v.line_id = w.line_id) =>
         (v.end_time <= w.start_time \/ w.end_time <= v.start_time)

(* The rows of a schedule query, in the order of their start.              *)
RECURSIVE LkRows(_)
LkRows(S) ==
  IF S = {} THEN <<>>
  ELSE LET w == CHOOSE x \in S : \A y \in S :
                  \/ x.start_time < y.start_time
                  \/ (x.start_time = y.start_time /\ x.line_id <= y.line_id)
       IN  << w >> \o LkRows(S \ {w})

(* Lines 276-291 of the overcycle publisher: the windows of one line as    *)
(* (shid, day, s_ms, e_ms), sorted by start.                               *)
LkByLine(S, line_id) ==
  LET rows == LkRows({w \in S : w.line_id = line_id})
  IN  [i \in DOMAIN rows |->
         [shid |-> rows[i].shift_id, day |-> DayOf(rows[i].start_time),
          s_ms |-> rows[i].start_time, e_ms |-> rows[i].end_time]]

LkInit ==
  /\ RollupIdle
  /\ PureIdleBut("fn")
  /\ \E S \in {T \in SUBSET {w \in LkWindowPool : w.start_time < w.end_time} : LkValid(T)} :
     \E line_id \in LkLines : \E t \in 0..(MaxLkTime + 1) : \E grace \in 0..2 :
     \E split \in 0..MaxLkTime :
       fn_call = [fn |-> "shift_lookup", wins |-> S, line_id |-> line_id, t |-> t,
                  grace |-> grace, split |-> split, done |-> FALSE,
                  active |-> NoShift, oc_active |-> NoWindow, last |-> NoWindow]

(* The rollup engine looks the active shift up in today's rows, then in    *)
(* yesterday's (the windows that start before split); the overcycle        *)
(* publisher in the line's sorted windows.                                 *)
call_shift_lookup ==
  /\ ~fn_call.done
  /\ \E m \in {[shiftsToday |-> LkRows({w \in fn_call.wins : w.start_time >= fn_call.split}),
               shiftsYday |-> LkRows({w \in fn_call.wins : w.start_time < fn_call.split}),
               pastShiftsByLine |-> <<>>]} :
     \E by_line \in {LkByLine(fn_call.wins, fn_call.line_id)} :
       fn_call' = [fn_call EXCEPT
                     !.done = TRUE,
                     !.active = _active_shift_for_line(m, fn_call.line_id, fn_call.t),
                     !.oc_active = OcActive(by_line, fn_call.t),
                     !.last = _last_ended_shift_for_line(by_line, fn_call.t, fn_call.grace)]
  /\ FnFrame

LkNext == call_shift_lookup

SpecShiftLookup == LkInit /\ [][LkNext]_vars

LkOfLine == {w \in fn_call.wins : w.line_id = fn_call.line_id}

LkActiveSet == {w \in LkOfLine : w.start_time <= fn_call.t /\ fn_call.t < w.end_time}

LkEndedSet == {w \in LkOfLine : w.end_time <= fn_call.t}

(* C34: the active-shift lookup returns a window of the line with         *)
(* start <= now < end, or nothing when the line has none (end-exclusive);  *)
(* the last-ended lookup returns the window with the latest end among the  *)
(* line's windows with end <= now, and only if now - end <= grace.         *)
C34_ShiftLookups ==
  fn_call.done =>
    /\ IF LkActiveSet = {}
       THEN fn_call.active.shift_id = None /\ fn_call.oc_active.shid = None
       ELSE /\ \E w \in LkActiveSet :
                 /\ fn_call.active.shift_id = w.shift_id
                 /\ fn_call.active.start = w.start_time /\ fn_call.active.end = w.end_time
            /\ \E w \in LkActiveSet :
                 /\ fn_call.oc_active.shid = w.shift_id
                 /\ fn_call.oc_active.s_ms = w.start_time
                 /\ fn_call.oc_active.e_ms = w.end_time
    /\ IF \E w \in LkEndedSet : fn_call.t - w.end_time <= fn_call.grace
            /\ \A v \in LkEndedSet : v.end_time <= w.end_time
       THEN \E w \in LkEndedSet :
              /\ \A v \in LkEndedSet : v.end_time <= w.end_time
              /\ fn_call.last.shid = w.shift_id /\ fn_call.last.e_ms = w.end_time
       ELSE fn_call.last.shid = None

C34_Witness ==
  /\ fn_call.done
  /\ Cardinality(LkOfLine) = 3
  /\ fn_call.t = 2
  /\ fn_call.active.start = 2
  /\ fn_call.last.e_ms = 2
  /\ fn_call.grace = 0

(* ---------------------------------------------------------------------- *)
(* The break reload, called on its own on the rows of the store.           *)
(* ---------------------------------------------------------------------- *)

MaxBrTime == 3

BrLines == {1, 2}

(* Rows of getBreaksOnDate: active or not, and with any two times.         *)
BrRowPool ==
  {[line_id |-> l, is_active |-> act, s |-> x, e |-> y] :
     l \in BrLines, act \in BOOLEAN, x \in 0..MaxBrTime, y \in 0..MaxBrTime}

(* Lines 291-318 (targets) and 170-202 (publisher): the active rows of     *)
(* each line, merged; a line without any has no entry and reads as [].     *)
ReloadBreaks(rows) ==
  [lid \in BrLines |->
     LET mine == SelectSeq(rows, LAMBDA r : r.is_active /\ r.line_id = lid)
     IN  MergeSpans([i \in DOMAIN mine |-> [s |-> mine[i].s, e |-> mine[i].e]])]

BrInit ==
  /\ RollupIdle
  /\ PureIdleBut("fn")
  /\ \E rows \in SeqsUpTo(BrRowPool, MaxBreaks) :
       fn_call = [fn |-> "_load_breaks_if_needed", rows |-> rows, done |-> FALSE,
                  by_line |-> [lid \in BrLines |-> <<>>]]

call_load_breaks ==
  /\ ~fn_call.done
  /\ fn_call' = [fn_call EXCEPT !.done = TRUE, !.by_line = ReloadBreaks(fn_call.rows)]
  /\ FnFrame

BrNext == call_load_breaks

SpecBreaks == BrInit /\ [][BrNext]_vars

BrActive(lid) ==
  {i \in DOMAIN fn_call.rows :
     fn_call.rows[i].is_active /\ fn_call.rows[i].line_id = lid}

(* C35: after a break reload each line's span list is sorted by start,   *)
(* its spans have end > start and are pairwise disjoint, every span starts *)
(* at the start of an active input span of the line and ends at the end of *)
(* one, and the list covers exactly the union of the line's active input   *)
(* spans.                                                                  *)
C35_MergedBreakSpans ==
  fn_call.done =>
    \A lid \in BrLines :
      LET m == fn_call.by_line[lid]
      IN  /\ \A i \in DOMAIN m : m[i].s < m[i].e
          /\ \A i, j \in DOMAIN m : i < j => (m[i].s < m[j].s /\ m[i].e <= m[j].s)
          /\ \A i \in DOMAIN m :
               /\ \E k \in BrActive(lid) : fn_call.rows[k].s = m[i].s
               /\ \E k \in BrActive(lid) : fn_call.rows[k].e = m[i].e
          /\ \A t \in 0..(MaxBrTime - 1) :
               (\E i \in DOMAIN m : m[i].s <= t /\ t < m[i].e)
                 <=> (\E k \in BrActive(lid) :
                        fn_call.rows[k].s <= t /\ t < fn_call.rows[k].e)

C35_Witness ==
  /\ fn_call.done
  /\ fn_call.rows = << [line_id |-> 1, is_active |-> TRUE, s |-> 0, e |-> 3],
                       [line_id |-> 1, is_active |-> TRUE, s |-> 1, e |-> 2] >>
  /\ fn_call.by_line[1] = << [s |-> 0, e |-> 3] >>

(* ---------------------------------------------------------------------- *)
(* The shift-window cache of the rollup engine, in seconds.                *)
(* ---------------------------------------------------------------------- *)

SHIFT_CACHE_SEC == 8

MaxCacheTime == 20

MaxTickGap == 6

(* Line 199: the cached windows are kept.                                  *)
ShiftCacheFresh(force, now_sec, m) ==
  /\ ~force
  /\ now_sec - m.lastShiftLoad < SHIFT_CACHE_SEC
  /\ m.cached

(* Line 196: the default of the parameter; line 423 passes no argument.    *)
ForceDefault == TRUE

CacheInit ==
  /\ RollupIdle
  /\ PureIdleBut("fn")
  /\ \E has_rows \in BOOLEAN :
       fn_call = [fn |-> "shift_cache", now_sec |-> 0, has_rows |-> has_rows,
                  meta |-> [lastShiftLoad |-> 0, cached |-> FALSE],
                  ticks |-> 0, queries |-> 0, gap |-> 0]

(* One run_rollups tick, gap seconds after the previous one: lines 423 and *)
(* 196-227.  A reload issues one getShiftScheduleOnDate query for today    *)
(* and one for yesterday.                                                  *)
tick_shift_cache ==
  \E gap \in 1..MaxTickGap :
    LET now_sec == fn_call.now_sec + gap
        keep == ShiftCacheFresh(ForceDefault, now_sec, fn_call.meta)
    IN  /\ now_sec <= MaxCacheTime
        /\ fn_call' = [fn_call EXCEPT
                         !.now_sec = now_sec,
                         !.gap = gap,
                         !.ticks = @ + 1,
                         !.queries = IF keep THEN @ ELSE @ + 2,
                         !.meta = IF keep THEN @
                                  ELSE [lastShiftLoad |-> now_sec,
                                        cached |-> fn_call.has_rows]]
        /\ FnFrame

CacheNext == tick_shift_cache

SpecShiftCache == CacheInit /\ [][CacheNext]_vars

(* C36: a tick that starts less than SHIFT_CACHE_SEC after the last load  *)
(* of the shift windows reuses the cached windows and issues no            *)
(* getShiftScheduleOnDate query.                                           *)
C36_ShiftWindowsCached ==
  [][(fn_call.ticks > 0 /\ fn_call.meta.cached
      /\ fn_call'.now_sec - fn_call.meta.lastShiftLoad < SHIFT_CACHE_SEC)
       => (fn_call'.queries = fn_call.queries /\ fn_call'.meta = fn_call.meta)]_vars

(* C37: when every counter sample of a window is seen by a tick with good *)
(* quality, the total the live tick rule accumulates equals the historian  *)
(* positive delta over the same samples, also when the counter resets      *)
(* inside the window.                                                      *)
C37_LiveTotalEqualsHistorianDelta ==
  accum_run.s.hour_total = positive_delta_of(accum_run.seen)

(* The two totals agree as long as no sample is below the one before it.   *)
LiveEqualsHistorianWithoutReset ==
  (\A i \in 1..(Len(accum_run.seen) - 1) : accum_run.seen[i] <= accum_run.seen[i + 1])
    => accum_run.s.hour_total = positive_delta_of(accum_run.seen)

(* ======================= properties: overcycle scan windows ======================= *)
(* What one scan over the whole shift counts for a station.                *)
WholeShiftCount(st, w) ==
  StationScan(getCtSegmentsForStationBetween(w.s_ms, w.e_ms),
              _query_ct_history(st, w.s_ms, w.e_ms)).cnt

OcWindowOfDay(day) == OcWindows(day)[1]

(* C38: the scan windows of the deltas written for a station share no      *)
(* sample, so every CycleTime sample, one stamped at a window boundary     *)
(* included, is counted by at most one written delta: the cumulative       *)
(* overcycle count of a station for a shift never exceeds the count of one *)
(* scan over the whole shift.                                              *)
C38_SampleInAtMostOneDelta ==
  \A k \in DOMAIN station_cum :
    \A i \in DOMAIN Stations :
      Stations[i].station_id = k[1] =>
        station_cum[k].cnt <= WholeShiftCount(Stations[i], OcWindowOfDay(k[2]))

(* Away from window boundaries the claim holds: while no sample is stamped *)
(* at a tick instant, the cumulative count stays within the whole-shift    *)
(* count.                                                                  *)
SampleInOneDeltaOffBoundary ==
  (\A i \in DOMAIN cycle_hist : ~IsTickInstant(cycle_hist[i].ts)) => C38_SampleInAtMostOneDelta

(* ======================= rollup engine: a failing flush ======================= *)
MaxFlushFailures == 1

ClosedHourKeys(rows) ==
  {<< rows[i].station_id, rows[i].hour_start_utc >> :
     i \in {j \in DOMAIN rows : rows[j].is_closed = 1}}

ClosedShiftKeys(rows) ==
  {<< rows[i].station_id, rows[i].shift_id, rows[i].shift_local_date >> :
     i \in {j \in DOMAIN rows : rows[j].is_closed = 1}}

(* Lines 382-393 when a named query of the flush raises: the except logs   *)
(* the error and the batches are dropped.  The station states the loop     *)
(* has advanced and the done-keys of the late reconciliation stay as they  *)
(* are; the upserts the bootstrap made on its own are in the store.        *)
FailedCommit(boot, tk) ==
  /\ _state' = [sid \in StationIds |->
                  tk[CHOOSE i \in DOMAIN Stations : Stations[i].station_id = sid].s]
  /\ _flush_batches(boot.h_rows, boot.sh_rows, <<>>, <<>>)
  /\ flush_failures' =
       Append(flush_failures,
              [at |-> now,
               hours |-> ClosedHourKeys(Concat([i \in DOMAIN tk |-> tk[i].hour])),
               shifts |-> ClosedShiftKeys(Concat([i \in DOMAIN tk |-> tk[i].late])
                                          \o Concat([i \in DOMAIN tk |-> tk[i].shift]))])

(* Lines 410-605: one timer tick whose batched upsert fails.               *)
run_rollups_flush_fails ==
  \E good \in BOOLEAN :
    /\ IsTickInstant(now)
    /\ ~ticked
    /\ good \/ bad_reads < MaxBadReads
    /\ Len(flush_failures) < MaxFlushFailures
    /\ ticked' = TRUE
    /\ bad_reads' = IF good THEN bad_reads ELSE bad_reads + 1
    /\ _meta' = _load_shift_windows_if_needed(now)
    /\ _bootstrapped_day' = DayOf(now)
    /\ \E boot \in {IF _bootstrapped_day # DayOf(now) THEN _bootstrap_today(now)
                    ELSE [h_rows |-> <<>>, sh_rows |-> <<>>]} :
         \E tk \in {[i \in DOMAIN Stations |->
                       StationPass(Stations[i], _state, _meta', now, counter, good)]} :
           FailedCommit(boot, tk)
    /\ UNCHANGED << now, counter, hist, restarts, backfills >>
    /\ UNCHANGED pvars

(* One gateway process from its start: the clock, the station, the timer.  *)
FlushFailureNext ==
  \/ Advance
  \/ CounterChange
  \/ run_rollups
  \/ run_rollups_flush_fails

SpecFlushFailure == RollupInit /\ [][FlushFailureNext]_vars

(* The timer is due and has not fired yet: exactly when a tick is enabled. *)
TimerPending == IsTickInstant(now) /\ ~ticked

(* The clock keeps running and the timer keeps firing: a due tick does not *)
(* stay pending for ever (weak fairness of the tick, stated on its guard), *)
(* and after the MaxFlushFailures failed flushes the store accepts the     *)
(* upserts of every tick.                                                  *)
SpecFlushFailureLive ==
  RollupInit /\ [][FlushFailureNext]_vars /\ WF_vars(Advance) /\ []<>~TimerPending

(* A failed flush is followed by at least this much time in which ticks    *)
(* could emit its rows again.                                              *)
RetryHorizon == 2 * TickPeriod

HourKeySet == {<< sid, h >> : sid \in StationIds, h \in {x \in 0..MaxTime : x % HourLen = 0}}

LostHourNow(k) ==
  \E i \in DOMAIN flush_failures :
    /\ flush_failures[i].at = now
    /\ now + RetryHorizon <= MaxTime
    /\ k \in flush_failures[i].hours

LostShiftNow(k) ==
  \E i \in DOMAIN flush_failures :
    /\ flush_failures[i].at = now
    /\ now + RetryHorizon <= MaxTime
    /\ k \in flush_failures[i].shifts

HourEmitted(k) == k \in ClosedHourKeys(hour_rows)

ShiftEmitted(k) == k \in ClosedShiftKeys(shift_rows)

LostClosedHoursEmittedAgain == \A k \in HourKeySet : LostHourNow(k) ~> HourEmitted(k)

LostClosedShiftsEmittedAgain == \A k \in LateKeys : LostShiftNow(k) ~> ShiftEmitted(k)

(* A tick whose flush failed had collected closed rows.                    *)
FlushFailureLostClosedRows ==
  \E i \in DOMAIN flush_failures :
    flush_failures[i].hours # {} \/ flush_failures[i].shifts # {}

(* ======================= properties: hint of the CT lookup ======================= *)
(* Every hint a caller can pass: negative, in range, past the end.         *)
HintVals == (0 - 2)..(MaxSegs + 1)

CtPair(r) == << r.ct, r.mult >>

(* C40: _ct_at(ts, segs, i_hint) returns the same (ct, mult) for every     *)
(* value of i_hint, negative and out-of-range hints included: the pair of  *)
(* the segment that applies at ts, and (0, 2) when the segment list is     *)
(* empty.                                                                  *)
C40_CtLookupIgnoresHint ==
  ct_call.done =>
    /\ \A h \in HintVals :
         CtPair(_ct_at(ct_call.ts, ct_call.segs, h)) = CtPair(ct_call.result)
    /\ ct_call.segs = <<>> => CtPair(ct_call.result) = << 0, 2 >>
    /\ ct_call.segs # <<>> =>
         CtPair(ct_call.result) = CtPair(Applied(ct_call.segs, ct_call.ts))

(* A lookup with a hint outside the list, and one with a hint that points  *)
(* past the segment in force, so that the walk back decides.               *)
C40_Witness ==
  /\ ct_call.done
  /\ Len(ct_call.segs) = MaxSegs
  /\ \/ ct_call.i_hint < 0 /\ ct_call.result.i > 0
     \/ ct_call.i_hint = Len(ct_call.segs) - 1 /\ ct_call.result.i < ct_call.i_hint

RECURSIVE Reverse(_)
Reverse(q) == IF q = <<>> THEN <<>> ELSE Append(Reverse(Tail(q)), q[1])

(* The consequence for a scan: visiting the samples of a history in the    *)
(* opposite order gives the same count, sum and maximum.                   *)
ScanOrderIndependent ==
  scan_call.done => StationScan(scan_call.segs, Reverse(scan_call.ds)) = scan_call.result

====
